---- MODULE Spec2Model ----
(***************************************************************************)
(* Model of the trade-simulation and risk-management core of the trading   *)
(* bot: BacktestEngine (backtest/engine.py), PositionManager               *)
(* (execution/position_manager.py), RiskManager                            *)
(* (execution/risk_manager.py) and the stop-check pass of TradingExecutor  *)
(* (execution/executor.py).                                                *)
(*                                                                         *)
(* Arithmetic.  Prices are whole rubles.  Every amount of money and every  *)
(* price level (stop_loss, take_profit, capital, commission, profit) is    *)
(* held in 1/Scale of a ruble, so that the percentages of the              *)
(* configuration (2 %, 1.5 %, 4 %, 0.3 %) are exact integers; int(x) of    *)
(* the source is \div.  Dates are whole days, (a - b).days is a - b.       *)
(***************************************************************************)
EXTENDS Integers, Sequences, FiniteSets, TLC

\* ------------------------------------------------------------------ bounds
\* Simulation: bars after the warm-up, their closes, the days between bars.
\* Live: buy orders sent, the clock, the broker's reports and fills, the
\* quotes of the stop-check pass, failed writes of the state file.
MaxBars == 3
Prices == {97, 99, 100, 101, 105}
DaySteps == {1, 7}
MaxOrders == 2
MaxDay == 7
ClockSteps == {7}
Quantities == {2}
LiveSymbols == {"SBER", "GAZP"}
OrderStatuses == {"FILL", "PARTIALLYFILL", "REJECTED", "ERROR"}
DiskOutcomes == {"ok", "open_failed", "dump_failed"}
MaxDiskFailures == 1
BuyFills == {100}
SellFills == {100}
Quotes == {97, 101, 105}
NoPrice == 0
SizingCapitals == {50000, 1000, 100}
SizingPrices == {500, 100, 97}
SizingLots == {1, 10}
SizingUsed == {0, 20000}
MaxCombos == 3
\* requests: attempts per request, and the periods a history request is split into
max_retries == 3
PeriodCounts == {1, 2}
Outcomes == {"ok", "RequestError", "Exception"}
\* signal strengths in tenths (0.5 is the base strength, 1.0 the cap); 0 is no signal
Strengths == {5, 7, 9, 10}
MaxStrength == 10
ConfirmedBonus == 2
\* drawdown: length and values of the equity series, the engine's initial capital
MaxSeries == 3
EquityValues == {0, 50, 100, 150}
PeakCapitals == {0, 100}
\* walk-forward: length of the date range, window and step, in days
RangeDays == {365, 360, 100, 90, 80}
WindowSizes == {90, 60}
StepSizes == {30, 7}
\* every step the signature takes: no argument is checked
AnyStepSizes == StepSizes \cup {0}
\* window results the model keeps of one call
MaxWindows == 45
MetricValues == {1, 2}
TradeSignals ==
  { [type |-> "buy", price |-> 100, reasons |-> <<>>],
    [type |-> "buy", price |-> NoPrice, reasons |-> <<>>],
    [type |-> "sell", price |-> 100, reasons |-> <<>>],
    [type |-> "sell", price |-> 100, reasons |-> <<"rule">>],
    [type |-> "sell", price |-> NoPrice, reasons |-> <<>>],
    [type |-> "hold", price |-> 100, reasons |-> <<>>] }
\* config.SYMBOLS, its first two
SYMBOLS == <<"SBER", "GAZP">>
Frames == {"None", "data"}
\* the account's balance in rubles and get_instrument_info's answer
Accounts ==
  { [balance |-> 1000, instrument |-> [found |-> TRUE, lot |-> 1]],
    [balance |-> 100, instrument |-> [found |-> TRUE, lot |-> 1]],
    [balance |-> 1000, instrument |-> [found |-> FALSE, lot |-> 1]] }
NoAccount == [balance |-> 0, instrument |-> [found |-> FALSE, lot |-> 1]]

\* ------------------------------------------------- configuration constants
\* Config (config/config.py).  The percentages are in 1/Scale: 2.0 % is 20,
\* 1.5 % is 15, 4.0 % is 40, the commission rate 0.003 is 3.
\* MAX_POSITION_SIZE 0.9 is held in tenths.  INITIAL_CAPITAL is in rubles.
Scale == 1000
STOP_LOSS_PERCENT == 20
TRAILING_STOP_PERCENT == 15
TAKE_PROFIT_PERCENT == 40
MAX_POSITION_SIZE == 9
MAX_POSITIONS == 1
MAX_HOLDING_DAYS == 7
COMMISSION_RATE == 3
INITIAL_CAPITAL == 50000
\* capitals a configuration file gives the engine (Config.from_dict)
InitialCapitals == {INITIAL_CAPITAL, 100}
\* RiskManager.calculate_position_size: commission_factor = 1.003, in 1/Scale
commission_factor == 1003

SimSymbol == "SBER"

\* What a strategy hands back: (signal, details); details is Optional.
NoDetails == [present |-> FALSE, reasons |-> <<>>]
Signals ==
  { [signal |-> FALSE, details |-> NoDetails],
    [signal |-> TRUE,  details |-> NoDetails],
    [signal |-> TRUE,  details |-> [present |-> TRUE, reasons |-> <<"rule">>]] }

VARIABLES
  mode,         \* what drives the program: main.py backtest, main.py start, or calls
  pc,           \* position of run_backtest: "idle", "loop", "done"
  nbars,        \* len(data) - lookback: bars the loop will visit
  i,            \* bars visited so far
  date,         \* data.index[i] of the bar visited last, in days
  last_price,   \* close of the bar visited last
  initial_capital, \* BacktestEngine.initial_capital (Config.INITIAL_CAPITAL as loaded), rubles
  last_signal,  \* history: the strategy was asked on the bar visited last and signalled
  capital,      \* BacktestEngine.capital
  max_capital,  \* BacktestEngine.max_capital
  positions,    \* BacktestEngine.positions: symbol -> position
  trades,       \* BacktestEngine.trades
  equity_curve, \* BacktestEngine.equity_curve
  exc,          \* which of _open_position/_close_position caught an exception in the last step
  pm_positions, \* PositionManager.positions: symbol -> position_info
  pm_keys,      \* the key order of that dict (insertion order)
  closed_positions, \* PositionManager.closed_positions
  state_file,   \* content of positions_state.json
  now,          \* datetime.now() of the live process, in days
  norders,      \* orders sent so far by place_order calls and by signals
  ndiskfail,    \* writes of the state file that failed so far
  pass,         \* position of check_stop_loss_and_trailing in its loop
  lastOp,       \* history: the ledger call or handler the last live step made
  sizing,       \* a position-sizing call: its arguments and what it returned
  opt,          \* a parameter search: its inputs, the locals of its loop, what it returns
  wf,           \* walk_forward_optimization: its arguments and the locals of its loop
  dd,           \* a drawdown calculation: the equity series given and what it returned
  fill,         \* history: the last order sent, what the broker executed of it, the lots held before
  cycle,        \* _update_data_and_check_signals: its place in SYMBOLS, who was skipped or checked
  net,          \* one data request: the attempts made, the delays slept and what it returned
  sel,          \* one signal check of the bot: what the strategies returned and what was executed
  bot           \* TradingBot.run: where it is, the running flag, what this turn of the loop ran

simvars == <<pc, nbars, i, date, last_price, initial_capital, last_signal, capital, max_capital, positions, trades, equity_curve, exc>>
livevars == <<pm_positions, pm_keys, closed_positions, state_file, now, norders, ndiskfail, pass, lastOp>>
callvars == <<sizing, opt, wf, dd, sel, net, cycle, fill>>
othervars == <<callvars, bot>>
\* what a step of one stand-alone routine leaves alone
frame_sizing == <<mode, simvars, livevars, opt, wf, dd, sel, net, cycle, fill, bot>>
frame_opt == <<mode, simvars, livevars, sizing, wf, dd, sel, net, cycle, fill, bot>>
frame_wf == <<mode, simvars, livevars, sizing, opt, dd, sel, net, cycle, fill, bot>>
frame_dd == <<mode, simvars, livevars, sizing, opt, wf, sel, net, cycle, fill, bot>>
frame_sel == <<mode, simvars, livevars, sizing, opt, wf, dd, net, cycle, fill, bot>>
frame_net == <<mode, simvars, livevars, sizing, opt, wf, dd, sel, cycle, fill, bot>>
vars == <<mode, simvars, livevars, othervars>>

\* The engine's mutable fields as one value, threaded through the methods.
Engine == [capital |-> capital, max_capital |-> max_capital,
           positions |-> positions, trades |-> trades, exc |-> "none"]

NoPositions == [s \in {} |-> 0]

\* dict without one key (del d[k])
Del(d, k) == [s \in (DOMAIN d) \ {k} |-> d[s]]
\* dict with one key set (d[k] = v)
Put(d, k, v) == [s \in (DOMAIN d) \cup {k} |-> IF s = k THEN v ELSE d[s]]

\* --------------------------------------------------- BacktestEngine methods
\* _open_position.  Prices are positive, so the divisions are defined.  bar is
\* a history field (index of the bar the call was made on), not program state.
_open_position_late_raise(e, symbol, price, d, details, bar) ==
  IF symbol \in DOMAIN e.positions THEN e
  ELSE
    LET quantity == (e.capital * MAX_POSITION_SIZE) \div (price * (Scale + COMMISSION_RATE) * 10)
        total_cost == quantity * price * (Scale + COMMISSION_RATE)
        position == [entry_price |-> price, quantity |-> quantity, entry_date |-> d,
                     stop_loss |-> price * (Scale - STOP_LOSS_PERCENT),
                     take_profit |-> price * (Scale + TAKE_PROFIT_PERCENT),
                     max_price |-> price, value |-> quantity * price * Scale,
                     stop_type |-> "fixed", signal_info |-> <<>>, bar |-> bar]
    IN IF quantity <= 0 \/ total_cost > e.capital THEN e
       ELSE IF ~details.present
            THEN [e EXCEPT !.positions = Put(@, symbol, position),
                           !.capital = @ - total_cost, !.exc = "open"]
            ELSE [e EXCEPT !.positions = Put(@, symbol, [position EXCEPT !.signal_info = details.reasons]),
                           !.capital = @ - total_cost,
                           !.trades = Append(@, [type |-> "buy", entry_date |-> d, entry_price |-> price,
                                                 quantity |-> quantity,
                                                 commission |-> quantity * price * COMMISSION_RATE,
                                                 value |-> quantity * price * Scale,
                                                 reasons |-> details.reasons, bar |-> bar])]

\* buys one lot when the allocation buys none, and does not look at the cost
_open_position_min_one_lot(e, symbol, price, d, details, bar) ==
  IF symbol \in DOMAIN e.positions \/ ~details.present THEN e
  ELSE
    LET quantity1 == (e.capital * MAX_POSITION_SIZE) \div (price * (Scale + COMMISSION_RATE) * 10)
        quantity == IF quantity1 <= 0 THEN 1 ELSE quantity1
        position == [entry_price |-> price, quantity |-> quantity, entry_date |-> d,
                     stop_loss |-> price * (Scale - STOP_LOSS_PERCENT),
                     take_profit |-> price * (Scale + TAKE_PROFIT_PERCENT),
                     max_price |-> price, value |-> quantity * price * Scale,
                     stop_type |-> "fixed", signal_info |-> details.reasons, bar |-> bar]
    IN [e EXCEPT !.positions = Put(@, symbol, position),
                 !.capital = @ - quantity * price * (Scale + COMMISSION_RATE),
                 !.trades = Append(@, [type |-> "buy", entry_date |-> d, entry_price |-> price,
                                       quantity |-> quantity,
                                       commission |-> quantity * price * COMMISSION_RATE,
                                       value |-> quantity * price * Scale,
                                       reasons |-> details.reasons, bar |-> bar])]

_open_position(e, symbol, price, d, details, bar) ==
  IF symbol \in DOMAIN e.positions
  THEN e                                               \* already open: warning, return
  ELSE
    LET max_position_value10 == e.capital * MAX_POSITION_SIZE
        quantity1 == max_position_value10 \div (price * (Scale + COMMISSION_RATE) * 10)
    IN IF quantity1 <= 0 THEN e                         \* not enough capital
       ELSE
         LET total_cost1 == quantity1 * price * Scale + quantity1 * price * COMMISSION_RATE
             adjust == total_cost1 > e.capital
             quantity == IF adjust THEN e.capital \div (price * (Scale + COMMISSION_RATE))
                                   ELSE quantity1
             position_value == quantity * price * Scale
             commission == quantity * price * COMMISSION_RATE
             total_cost == position_value + commission
         IN IF quantity <= 0 \/ total_cost > e.capital THEN e
            ELSE IF ~details.present
                 THEN [e EXCEPT !.exc = "open"]         \* details.get on None raises, caught
                 ELSE
                   LET position == [entry_price |-> price, quantity |-> quantity, entry_date |-> d,
                                    stop_loss |-> price * (Scale - STOP_LOSS_PERCENT),
                                    take_profit |-> price * (Scale + TAKE_PROFIT_PERCENT),
                                    max_price |-> price, value |-> position_value,
                                    stop_type |-> "fixed", signal_info |-> details.reasons,
                                    bar |-> bar]
                       trade == [type |-> "buy", entry_date |-> d, entry_price |-> price,
                                 quantity |-> quantity, commission |-> commission,
                                 value |-> position_value, reasons |-> details.reasons,
                                 bar |-> bar]
                   IN [e EXCEPT !.positions = Put(@, symbol, position),
                                !.capital = @ - total_cost,
                                !.trades = Append(@, trade)]

\* The sell record of _close_position; pos is a history field: the position as
\* it was when it was closed.
SellTrade(position, price, d, reason, profit, bar) ==
  [type |-> "sell", entry_date |-> position.entry_date, entry_price |-> position.entry_price,
   exit_date |-> d, exit_price |-> price, quantity |-> position.quantity, reason |-> reason,
   commission |-> position.quantity * price * COMMISSION_RATE, profit |-> profit,
   holding_days |-> d - position.entry_date, signal_info |-> position.signal_info,
   bar |-> bar, pos |-> position]

_close_position_cashflow_profit(e, symbol, price, d, reason, bar) ==
  IF symbol \notin DOMAIN e.positions THEN e
  ELSE
    LET position == e.positions[symbol]
        close_value == position.quantity * price * Scale
        commission == position.quantity * price * COMMISSION_RATE
        entry_value == position.quantity * position.entry_price * Scale
        new_capital == e.capital + close_value - commission
    IN [e EXCEPT !.capital = new_capital,
                 !.max_capital = IF new_capital > @ THEN new_capital ELSE @,
                 !.trades = Append(@, SellTrade(position, price, d, reason,
                                                close_value - entry_value - commission, bar)),
                 !.positions = Del(@, symbol)]

_close_position_keep(e, symbol, price, d, reason, bar) ==
  IF symbol \notin DOMAIN e.positions THEN e
  ELSE
    LET position == e.positions[symbol]
        close_value == position.quantity * price * Scale
        commission == position.quantity * price * COMMISSION_RATE
        entry_value == position.quantity * position.entry_price * Scale
        new_capital == e.capital + close_value - commission
        profit == close_value - entry_value - commission
                    - position.quantity * position.entry_price * COMMISSION_RATE
    IN [e EXCEPT !.capital = new_capital,
                 !.max_capital = IF new_capital > @ THEN new_capital ELSE @,
                 !.trades = Append(@, SellTrade(position, price, d, reason, profit, bar))]

_close_position(e, symbol, price, d, reason, bar) ==
  IF symbol \notin DOMAIN e.positions
  THEN e                                               \* nothing open: warning, return
  ELSE
    LET position == e.positions[symbol]
        close_value == position.quantity * price * Scale
        commission == position.quantity * price * COMMISSION_RATE
        new_capital == e.capital + close_value - commission
        entry_value == position.quantity * position.entry_price * Scale
        profit == close_value - entry_value - commission
                    - position.quantity * position.entry_price * COMMISSION_RATE
    IN [e EXCEPT !.capital = new_capital,
                 !.max_capital = IF new_capital > @ THEN new_capital ELSE @,
                 !.trades = Append(@, SellTrade(position, price, d, reason, profit, bar)),
                 !.positions = Del(@, symbol)]

\* ------------------------------------------------- the body of the bar loop
\* lines 228-236: raise max_price and, if higher, the stop
UpdateTrailing_always(position, current_price) ==
  IF current_price > position.max_price
  THEN [position EXCEPT !.max_price = current_price,
                        !.stop_loss = current_price * (Scale - TRAILING_STOP_PERCENT),
                        !.stop_type = "trailing"]
  ELSE [position EXCEPT !.stop_loss = current_price * (Scale - TRAILING_STOP_PERCENT),
                        !.stop_type = "trailing"]

UpdateTrailing_max_only(position, current_price) ==
  IF current_price > position.max_price
  THEN [position EXCEPT !.max_price = current_price]
  ELSE position

UpdateTrailing(position, current_price) ==
  IF current_price > position.max_price
  THEN LET new_stop_level == current_price * (Scale - TRAILING_STOP_PERCENT)
       IN IF new_stop_level > position.stop_loss
          THEN [position EXCEPT !.max_price = current_price,
                                !.stop_loss = new_stop_level,
                                !.stop_type = "trailing"]
          ELSE [position EXCEPT !.max_price = current_price]
  ELSE position

\* lines 238-256: the three exits that end the bar, in the order of the code
StopLossReason_plain(position) == "stop_loss"

StopLossReason(position) ==
  IF position.stop_type = "fixed" THEN "stop_loss (fixed)" ELSE "stop_loss (trailing)"

ExitCheck_time_first(position, current_price, current_date) ==
  IF current_date - position.entry_date >= MAX_HOLDING_DAYS THEN "max_holding_time"
  ELSE IF current_price * Scale <= position.stop_loss THEN StopLossReason(position)
  ELSE IF current_price * Scale >= position.take_profit THEN "take_profit"
  ELSE "none"

ExitCheck(position, current_price, current_date) ==
  IF current_price * Scale <= position.stop_loss THEN StopLossReason(position)
  ELSE IF current_price * Scale >= position.take_profit THEN "take_profit"
  ELSE IF current_date - position.entry_date >= MAX_HOLDING_DAYS THEN "max_holding_time"
  ELSE "none"

\* lines 263-265
SellReason(sell_details) ==
  IF sell_details.present /\ Len(sell_details.reasons) > 0
  THEN "strategy_signal: " \o sell_details.reasons[1]
  ELSE "strategy_signal"

\* lines 224-274 for one bar; sig is the answer of the one strategy call the
\* bar makes (check_sell_signals with a position, check_buy_signals without).
BarStep_reenter(e, price, d, sig, bar) ==
  IF SimSymbol \in DOMAIN e.positions
  THEN LET e1 == [e EXCEPT !.positions[SimSymbol] = UpdateTrailing(@, price)]
           r == ExitCheck(e1.positions[SimSymbol], price, d)
           e2 == IF r # "none" THEN _close_position(e1, SimSymbol, price, d, r, bar)
                 ELSE IF sig.signal
                      THEN _close_position(e1, SimSymbol, price, d, SellReason(sig.details), bar)
                      ELSE e1
       IN IF SimSymbol \notin DOMAIN e2.positions /\ sig.signal
          THEN _open_position(e2, SimSymbol, price, d, sig.details, bar)
          ELSE e2
  ELSE IF sig.signal THEN _open_position(e, SimSymbol, price, d, sig.details, bar) ELSE e

BarStep(e, price, d, sig, bar) ==
  IF SimSymbol \in DOMAIN e.positions
  THEN LET e1 == [e EXCEPT !.positions[SimSymbol] = UpdateTrailing(@, price)]
           r == ExitCheck(e1.positions[SimSymbol], price, d)
       IN IF r # "none"
          THEN _close_position(e1, SimSymbol, price, d, r, bar)       \* close, continue
          ELSE IF sig.signal
               THEN _close_position(e1, SimSymbol, price, d, SellReason(sig.details), bar)
               ELSE e1
  ELSE IF sig.signal
       THEN _open_position(e, SimSymbol, price, d, sig.details, bar)
       ELSE e

\* engine.py:184-191: the sample written before the loop, dated data.index[lookback]
\* (the date of the first bar the loop visits)
first_sample(e, d) ==
  [date |-> d, equity |-> e.capital, cash |-> e.capital, position_value |-> 0,
   position_active |-> 0]

\* engine.py:199-219: the sample a bar appends before anything else happens
record_equity(curve, e, price, d) ==
  LET held == SimSymbol \in DOMAIN e.positions
      position_value == IF held THEN e.positions[SimSymbol].quantity * price * Scale ELSE 0
  IN Append(curve, [date |-> d, equity |-> e.capital + position_value, cash |-> e.capital,
                    position_value |-> position_value,
                    position_active |-> IF held THEN 1 ELSE 0])

\* whether the bar reached its strategy call (an exit `continue`s before it)
\* and the strategy signalled
Answered(e, price, d, sig) ==
  IF SimSymbol \in DOMAIN e.positions
  THEN ExitCheck(UpdateTrailing(e.positions[SimSymbol], price), price, d) = "none" /\ sig.signal
  ELSE sig.signal

\* lines 276-281: close what is still open at the last bar's close
RECURSIVE CloseAll(_, _, _, _, _)
CloseAll(e, symbols, price, d, bar) ==
  IF symbols = {} THEN e
  ELSE LET s == CHOOSE x \in symbols : TRUE
       IN CloseAll(_close_position(e, s, price, d, "end_of_backtest", bar),
                   symbols \ {s}, price, d, bar)

EndOfRun_leave_open(e, price, d, bar) == e

EndOfRun(e, price, d, bar) == CloseAll(e, DOMAIN e.positions, price, d, bar)

\* ------------------------------------------------------------- RiskManager
\* int(a / b) for b > 0: truncation toward zero
int_div(a, b) == IF a >= 0 THEN a \div b ELSE -((-a) \div b)

Min(a, b) == IF a <= b THEN a ELSE b

\* sum(position.get('value', 0) for position in positions.values())
RECURSIVE SumValues(_, _)
SumValues(open_positions, symbols) ==
  IF symbols = {} THEN 0
  ELSE LET s == CHOOSE x \in symbols : TRUE
       IN open_positions[s].value + SumValues(open_positions, symbols \ {s})

used_capital(open_positions) == SumValues(open_positions, DOMAIN open_positions)

check_position_limits_capital_only(cap, open_positions) ==
  (cap - used_capital(open_positions)) * 10 >= cap

\* capital is in 1/Scale ruble, a whole number of rubles times Scale
check_position_limits(cap, open_positions) ==
  IF Cardinality(DOMAIN open_positions) >= MAX_POSITIONS THEN FALSE
  ELSE IF (cap - used_capital(open_positions)) * 10 < cap THEN FALSE
  ELSE TRUE

\* (position_value, quantity); price * commission_factor is price * 1.003
calculate_position_size(cap, price, open_positions) ==
  LET available_capital == cap - used_capital(open_positions)
      max_position_value == (cap * MAX_POSITION_SIZE) \div 10
      position_value == Min(available_capital, max_position_value)
  IN [position_value |-> position_value,
      quantity |-> int_div(position_value, price * commission_factor)]

check_stop_loss_take_profit(position, current_price) ==
  IF position.direction = "buy"
  THEN IF position.stop_loss > 0 /\ current_price * Scale <= position.stop_loss THEN "stop_loss"
       ELSE IF current_price * Scale >= position.take_profit THEN "take_profit"
       ELSE "none"
  ELSE "none"

\* A position_info without max_price is held with max_price = entry_price,
\* which is what position.get('max_price', entry_price) reads.
check_trailing_stop(position, current_price) ==
  IF position.direction = "buy"
  THEN LET raised == current_price > position.max_price
           max_price == IF raised THEN current_price ELSE position.max_price
           new_stop == max_price * (Scale - TRAILING_STOP_PERCENT)
       IN IF raised /\ new_stop > position.stop_loss
          THEN [triggered |-> FALSE, new_stop |-> new_stop]
          ELSE IF /\ position.stop_loss > 0
                  /\ max_price > position.entry_price
                  /\ current_price * Scale <= position.stop_loss
               THEN [triggered |-> TRUE, new_stop |-> position.stop_loss]
               ELSE [triggered |-> FALSE, new_stop |-> position.stop_loss]
  ELSE [triggered |-> FALSE, new_stop |-> position.stop_loss]

check_holding_time(position, current_time) ==
  current_time - position.entry_time >= MAX_HOLDING_DAYS

\* --------------------------------------------------------- PositionManager
\* The ledger as one value: [positions, keys, closed, file].
Ledger == [positions |-> pm_positions, keys |-> pm_keys,
           closed |-> closed_positions, file |-> state_file]

NoFile == [state |-> "absent", positions |-> NoPositions, keys |-> <<>>, closed |-> <<>>]

\* save_state: the whole method is inside try/except.  open(..., 'w') failing
\* leaves the file as it was; json.dump failing leaves a truncated file.
save_state(L, disk) ==
  IF disk = "ok"
  THEN [L EXCEPT !.file = [state |-> "ok", positions |-> L.positions, keys |-> L.keys,
                           closed |-> L.closed]]
  ELSE IF disk = "dump_failed"
       THEN [L EXCEPT !.file = [state |-> "corrupt", positions |-> NoPositions, keys |-> <<>>,
                                closed |-> <<>>]]
       ELSE L

\* PositionManager(config) followed by load_state(): an absent file returns
\* early, a file json.load cannot read ends in the except branch; both leave
\* the empty ledger of the constructor.
load_state(file) ==
  IF file.state = "ok"
  THEN [positions |-> file.positions, keys |-> file.keys, closed |-> file.closed, file |-> file]
  ELSE [positions |-> NoPositions, keys |-> <<>>, closed |-> <<>>, file |-> file]

add_position(L, symbol, position_info, disk) ==
  save_state([L EXCEPT !.positions = Put(@, symbol, position_info),
                       !.keys = IF symbol \in DOMAIN L.positions THEN @ ELSE Append(@, symbol)],
             disk)

\* an update that stores its keys under the symbol whether or not it is open
update_position_upsert(L, symbol, updates, disk) ==
  save_state([L EXCEPT !.positions =
                Put(@, symbol,
                    IF symbol \in DOMAIN L.positions
                    THEN [L.positions[symbol] EXCEPT !.stop_loss = updates.stop_loss,
                                                     !.max_price = updates.max_price]
                    ELSE [entry_price |-> updates.max_price, quantity |-> 0, entry_time |-> 0,
                          stop_loss |-> updates.stop_loss, take_profit |-> 0,
                          max_price |-> updates.max_price, direction |-> "buy", value |-> 0]),
                       !.keys = IF symbol \in DOMAIN L.positions THEN @ ELSE Append(@, symbol)],
             disk)

update_position(L, symbol, updates, disk) ==
  IF symbol \notin DOMAIN L.positions
  THEN L
  ELSE save_state([L EXCEPT !.positions[symbol] =
                     [@ EXCEPT !.stop_loss = updates.stop_loss, !.max_price = updates.max_price]],
                  disk)

RemoveKey(keys, k) == SelectSeq(keys, LAMBDA x : x # k)

ClosedRecord(position, close_info) ==
  [entry_price |-> position.entry_price, quantity |-> position.quantity,
   entry_time |-> position.entry_time, stop_loss |-> position.stop_loss,
   take_profit |-> position.take_profit, max_price |-> position.max_price,
   direction |-> position.direction, value |-> position.value,
   symbol |-> close_info.symbol,
   close_price |-> close_info.close_price, close_time |-> close_info.close_time,
   close_reason |-> close_info.close_reason,
   pnl_absolute |-> (close_info.close_price - position.entry_price) * position.quantity * Scale,
   holding_days |-> close_info.close_time - position.entry_time]

pm_close_position_always_save(L, symbol, close_info, disk) ==
  IF symbol \notin DOMAIN L.positions
  THEN save_state(L, disk)
  ELSE save_state([L EXCEPT !.closed = Append(@, ClosedRecord(L.positions[symbol], close_info)),
                            !.positions = Del(@, symbol),
                            !.keys = RemoveKey(@, symbol)], disk)

pm_close_position(L, symbol, close_info, disk) ==
  IF symbol \notin DOMAIN L.positions
  THEN L                                               \* warning, return
  ELSE save_state([L EXCEPT !.closed = Append(@, ClosedRecord(L.positions[symbol], close_info)),
                            !.positions = Del(@, symbol),
                            !.keys = RemoveKey(@, symbol)], disk)

\* --------------------------------------------------------- TradingExecutor
_calculate_stop_take_levels(price) ==
  [stop_loss |-> price * (Scale - STOP_LOSS_PERCENT),
   take_profit |-> price * (Scale + TAKE_PROFIT_PERCENT)]

CloseInfo(symbol, price, t, reason) ==
  [symbol |-> symbol, close_price |-> price, close_time |-> t, close_reason |-> reason]

place_order_rejected_returns_id(L, symbol, direction, quantity, out, t, disk) ==
  IF quantity <= 0 \/ out.status = "ERROR"
  THEN [L |-> L, order_id |-> FALSE]
  ELSE IF out.status = "FILL" /\ direction = "buy"
       THEN [L |-> add_position(L, symbol,
                                [entry_price |-> out.price, quantity |-> quantity, entry_time |-> t,
                                 stop_loss |-> _calculate_stop_take_levels(out.price).stop_loss,
                                 take_profit |-> _calculate_stop_take_levels(out.price).take_profit,
                                 max_price |-> out.price, direction |-> "buy",
                                 value |-> out.price * quantity * Scale], disk),
             order_id |-> TRUE]
       ELSE IF out.status = "FILL"
       THEN [L |-> pm_close_position(L, symbol, CloseInfo(symbol, out.price, t, "sell_order"), disk),
             order_id |-> TRUE]
       ELSE [L |-> L, order_id |-> TRUE]

\* place_order: [L, order_id]; order_id is TRUE for a returned id, FALSE for None.
\* out = [status, price]: the broker's report and the executed price.
place_order(L, symbol, direction, quantity, out, t, disk) ==
  IF quantity <= 0 \/ out.status \in {"ERROR", "REJECTED"}
  THEN [L |-> L, order_id |-> FALSE]
  ELSE IF out.status = "FILL"
       THEN IF direction = "buy"
            THEN LET levels == _calculate_stop_take_levels(out.price)
                     position_info == [entry_price |-> out.price, quantity |-> quantity,
                                       entry_time |-> t, stop_loss |-> levels.stop_loss,
                                       take_profit |-> levels.take_profit,
                                       max_price |-> out.price, direction |-> "buy",
                                       value |-> out.price * quantity * Scale]
                 IN [L |-> add_position(L, symbol, position_info, disk), order_id |-> TRUE]
            ELSE [L |-> pm_close_position(L, symbol, CloseInfo(symbol, out.price, t, "sell_order"), disk),
                  order_id |-> TRUE]
       ELSE [L |-> L, order_id |-> TRUE]                \* partial fill: logged only

\* calculate_quantity: (lots, total_value); instrument is get_instrument_info's
\* answer, found = FALSE for None.  The lots of calculate_position_size are
\* bound to a name and not used.
calculate_quantity(balance, price, open_positions, instrument) ==
  IF ~instrument.found THEN [lots |-> 0, total_value |-> 0]
  ELSE LET size == calculate_position_size(balance, price, open_positions)
           max_lots == int_div(size.position_value, price * instrument.lot * Scale)
       IN IF max_lots <= 0 THEN [lots |-> 0, total_value |-> 0]
          ELSE [lots |-> max_lots, total_value |-> max_lots * instrument.lot * price * Scale]

\* execute_trade_signal: [L, ok, sent]; ok is the returned bool, sent the
\* reports of the orders placed (history).  sig.price is
\* signal_details.get('price') or get_current_price(symbol), NoPrice for None.
NotExecuted(L) == [L |-> L, ok |-> FALSE, sent |-> {}]

execute_trade_signal(L, symbol, sig, balance, instrument, out, t, disk) ==
  LET position_exists == symbol \in DOMAIN L.positions
  IN IF sig.type \notin {"buy", "sell"} THEN NotExecuted(L)
     ELSE IF sig.type = "buy" /\ ~position_exists
     THEN IF ~check_position_limits(balance, L.positions) THEN NotExecuted(L)
          ELSE IF sig.price = NoPrice THEN NotExecuted(L)
          ELSE LET q == calculate_quantity(balance, sig.price, L.positions, instrument)
               IN IF q.lots <= 0 THEN NotExecuted(L)
                  ELSE LET r == place_order(L, symbol, "buy", q.lots, out, t, disk)
                       IN [L |-> r.L, ok |-> r.order_id, sent |-> {out.status}]
     ELSE IF sig.type = "sell" /\ position_exists
     THEN LET quantity == L.positions[symbol].quantity
              r == place_order(L, symbol, "sell", quantity, out, t, disk)
              close_reason == IF Len(sig.reasons) > 0 THEN sig.reasons[1] ELSE "sell_signal"
          IN IF quantity <= 0 THEN NotExecuted(L)
             ELSE IF ~r.order_id THEN [L |-> r.L, ok |-> FALSE, sent |-> {out.status}]
             ELSE IF sig.price = NoPrice /\ symbol \in DOMAIN r.L.positions
                  \* close_price None: close_position raises before it changes anything
                  THEN [L |-> r.L, ok |-> FALSE, sent |-> {out.status}]
                  ELSE [L |-> pm_close_position(r.L, symbol,
                                                CloseInfo(symbol, sig.price, t, close_reason), disk),
                        ok |-> TRUE, sent |-> {out.status}]
     ELSE NotExecuted(L)

\* sell and, if an order id came back, close in the ledger with the given reason
SellAndClose(L, symbol, position, current_price, reason, out, t, disk) ==
  LET r == place_order(L, symbol, "sell", position.quantity, out, t, disk)
  IN IF r.order_id
     THEN pm_close_position(r.L, symbol, CloseInfo(symbol, current_price, t, reason), disk)
     ELSE r.L

\* the body of the loop of check_stop_loss_and_trailing for one position
CheckOne(L, symbol, current_price, out1, out2, t, disk) ==
  LET position == L.positions[symbol]
      stop_result == check_stop_loss_take_profit(position, current_price)
      trailing == check_trailing_stop(position, current_price)
      L1 == IF stop_result = "stop_loss"
            THEN SellAndClose(L, symbol, position, current_price, "stop_loss", out1, t, disk)
            ELSE IF stop_result = "take_profit"
            THEN SellAndClose(L, symbol, position, current_price, "take_profit", out1, t, disk)
            ELSE IF trailing.triggered
            THEN SellAndClose(L, symbol, position, current_price, "trailing_stop", out1, t, disk)
            ELSE IF trailing.new_stop > position.stop_loss
            THEN update_position(L, symbol,
                                 [stop_loss |-> trailing.new_stop, max_price |-> current_price], disk)
            ELSE L
  IN IF current_price = NoPrice THEN L
     ELSE IF check_holding_time(position, t)
          THEN SellAndClose(L1, symbol, position, current_price, "max_holding_time", out2, t, disk)
          ELSE L1

\* ------------------------------------------------------------ live actions
\* History, lastOp.data: whether the price or the bars the step asked for came
\* ("missing", "present"; "-" for a step that asks for none).
\* History, lastOp.sent: the orders of the step that reached the broker.
\* History, lastOp.order: what the orders a handler sent came to: "none" sent,
\* "failed" (every report REJECTED, or the order call raised), "ok" (some
\* report FILL or PARTIALLYFILL).  lastOp.returned: the id or bool it returned.
OrderNote(statuses) ==
  IF statuses = {} THEN "none"
  ELSE IF statuses \cap {"FILL", "PARTIALLYFILL"} # {} THEN "ok"
  ELSE "failed"

AssignLedger(L) ==
  /\ pm_positions' = L.positions
  /\ pm_keys' = L.keys
  /\ closed_positions' = L.closed
  /\ state_file' = L.file

\* "live": the executor's and the ledger's methods called one at a time;
\* "start": TradingBot.run, which reaches them through execute_trade_signal
\* and check_stop_loss_and_trailing only; "cycle": TradingBot.run with
\* _update_data_and_check_signals followed symbol by symbol; "ledger": the
\* PositionManager's add, update and close called one at a time; "orders":
\* place_order and execute_trade_signal with the broker's report kept; "run":
\* TradingBot.run statement by statement, its two checks called from its loop.
LiveModes == {"live", "start", "cycle", "ledger", "orders", "run"}
Idle == mode \in LiveModes /\ pass.at = "idle" /\ cycle.at = "idle"

\* The broker's report on an order: an executed price comes with FILL only.
Unfilled == [status : OrderStatuses \ {"FILL"}, price : {NoPrice}]
BuyOutcomes == [status : {"FILL"}, price : BuyFills] \cup Unfilled
SellOutcomes == [status : {"FILL"}, price : SellFills] \cup Unfilled

\* the outcomes the disk may still produce, and the failures counted
Disk == IF ndiskfail < MaxDiskFailures THEN DiskOutcomes ELSE {"ok"}
\* a step that does not reach save_state draws no outcome
DiskIf(writes) == IF writes THEN Disk ELSE {"ok"}
CountDisk(disk) == ndiskfail' = IF disk = "ok" THEN ndiskfail ELSE ndiskfail + 1

\* TradingExecutor.place_order called for a buy
PlaceBuyOrder ==
  /\ Idle
  /\ mode \in {"live", "ledger"}
  /\ norders < MaxOrders
  /\ \E symbol \in LiveSymbols, quantity \in Quantities, out \in BuyOutcomes :
     \E disk \in DiskIf(out.status = "FILL") :
       LET r == place_order(Ledger, symbol, "buy", quantity, out, now, disk)
       IN /\ CountDisk(disk)
          /\ AssignLedger(r.L)
          /\ lastOp' = [op |-> IF out.status = "FILL" THEN "add_position" ELSE "none",
                        symbol |-> symbol, found |-> symbol \in DOMAIN pm_positions,
                        order |-> OrderNote({out.status}), returned |-> r.order_id, data |-> "-",
                        sent |-> IF out.status = "ERROR" THEN 0 ELSE 1]
  /\ norders' = norders + 1
  /\ UNCHANGED <<mode, othervars, simvars, now, pass>>

\* PositionManager.close_position called by a holder of the ledger
ClosePosition ==
  /\ Idle
  /\ mode \in {"live", "ledger"}
  /\ \E symbol \in LiveSymbols, price \in SellFills :
     \E disk \in DiskIf(symbol \in DOMAIN pm_positions) :
       /\ CountDisk(disk)
       /\ AssignLedger(pm_close_position(Ledger, symbol,
                                         CloseInfo(symbol, price, now, "sell_signal"), disk))
       /\ lastOp' = [op |-> "close_position", symbol |-> symbol,
                     found |-> symbol \in DOMAIN pm_positions, order |-> "none",
                     returned |-> FALSE, data |-> "-", sent |-> 0]
  /\ UNCHANGED <<mode, othervars, simvars, now, norders, pass>>

\* order_response.lots_executed: all the lots of a filled order, some but not
\* all of a partially filled one, none of a rejected or failed one
lots_executed(status, quantity) ==
  CASE status = "FILL" -> quantity
    [] status = "PARTIALLYFILL" -> quantity - 1
    [] OTHER -> 0

\* the lots the ledger holds open for a symbol
open_quantity(open_positions, symbol) ==
  IF symbol \in DOMAIN open_positions THEN open_positions[symbol].quantity ELSE 0

\* TradingExecutor.place_order called for a buy, or for a sell of the lots held
PlaceOrder ==
  /\ Idle
  /\ mode = "orders"
  /\ norders < MaxOrders
  /\ \E symbol \in LiveSymbols, direction \in {"buy", "sell"} :
     \E quantity \in IF direction = "buy" THEN Quantities
                      ELSE {open_quantity(pm_positions, symbol)} \ {0} :
     \E out \in IF direction = "buy" THEN BuyOutcomes ELSE SellOutcomes :
     \E disk \in DiskIf(out.status = "FILL") :
       LET r == place_order(Ledger, symbol, direction, quantity, out, now, disk)
       IN /\ CountDisk(disk)
          /\ AssignLedger(r.L)
          /\ lastOp' = [op |-> "place_order", symbol |-> symbol,
                        found |-> symbol \in DOMAIN pm_positions,
                        order |-> OrderNote({out.status}), returned |-> r.order_id,
                        data |-> "-", sent |-> IF out.status = "ERROR" THEN 0 ELSE 1]
          /\ fill' = [op |-> "place_order", symbol |-> symbol, direction |-> direction,
                      status |-> out.status, requested |-> quantity,
                      executed |-> lots_executed(out.status, quantity),
                      before |-> open_quantity(pm_positions, symbol)]
  /\ norders' = norders + 1
  /\ UNCHANGED <<mode, simvars, sizing, opt, wf, dd, sel, net, cycle, bot, now, pass>>

\* TradingExecutor.execute_trade_signal with a buy or a sell signal that sends an order
TradeSignal ==
  /\ Idle
  /\ mode = "orders"
  /\ norders < MaxOrders
  /\ \E symbol \in LiveSymbols, sig \in {g \in TradeSignals : g.type \in {"buy", "sell"}} :
     \E account \in IF sig.type = "buy" THEN Accounts ELSE {NoAccount} :
     \E out \in IF sig.type = "buy" THEN BuyOutcomes ELSE SellOutcomes :
     \E disk \in DiskIf(out.status \in {"FILL", "PARTIALLYFILL"}) :
       LET r == execute_trade_signal(Ledger, symbol, sig, account.balance * Scale,
                                     account.instrument, out, now, disk)
           quantity == IF sig.type = "sell" THEN open_quantity(pm_positions, symbol)
                       ELSE calculate_quantity(account.balance * Scale, sig.price,
                                               pm_positions, account.instrument).lots
       IN /\ r.sent # {}
          /\ CountDisk(disk)
          /\ AssignLedger(r.L)
          /\ lastOp' = [op |-> sig.type \o "_signal", symbol |-> symbol,
                        found |-> symbol \in DOMAIN pm_positions,
                        order |-> OrderNote(r.sent), returned |-> r.ok, data |-> "-",
                        sent |-> Cardinality(r.sent \ {"ERROR"})]
          /\ fill' = [op |-> "execute_trade_signal", symbol |-> symbol, direction |-> sig.type,
                      status |-> out.status, requested |-> quantity,
                      executed |-> lots_executed(out.status, quantity),
                      before |-> open_quantity(pm_positions, symbol)]
  /\ norders' = norders + 1
  /\ UNCHANGED <<mode, simvars, sizing, opt, wf, dd, sel, net, cycle, bot, now, pass>>

\* PositionManager.update_position called by a holder of the ledger with the
\* keys the stop pass writes: a stop below a quote, and the quote
UpdatePosition ==
  /\ Idle
  /\ mode = "ledger"
  /\ \E symbol \in LiveSymbols, price \in Quotes :
     \E disk \in DiskIf(symbol \in DOMAIN pm_positions) :
       /\ CountDisk(disk)
       /\ AssignLedger(update_position(Ledger, symbol,
                                       [stop_loss |-> price * (Scale - TRAILING_STOP_PERCENT),
                                        max_price |-> price], disk))
       /\ lastOp' = [op |-> "update_position", symbol |-> symbol,
                     found |-> symbol \in DOMAIN pm_positions, order |-> "none",
                     returned |-> FALSE, data |-> "-", sent |-> 0]
  /\ UNCHANGED <<mode, othervars, simvars, now, norders, pass>>

\* The broker reports that matter to one loop body: a report is drawn only for
\* an order the body sends (the others are never read).
NoReport == [status |-> "ERROR", price |-> NoPrice]
FirstOrders(position, current_price) ==
  IF /\ current_price # NoPrice
     /\ \/ check_stop_loss_take_profit(position, current_price) # "none"
        \/ check_trailing_stop(position, current_price).triggered
  THEN SellOutcomes ELSE {NoReport}
SecondOrders(position, current_price, t) ==
  IF current_price # NoPrice /\ check_holding_time(position, t)
  THEN SellOutcomes ELSE {NoReport}

\* History: the reports of the orders one loop body sent.
SentStatuses(position, current_price, out1, out2, t) ==
  (IF FirstOrders(position, current_price) = {NoReport} \/ position.quantity <= 0
   THEN {} ELSE {out1.status})
  \cup (IF SecondOrders(position, current_price, t) = {NoReport} \/ position.quantity <= 0
        THEN {} ELSE {out2.status})

\* History: how many of them the broker answered (post_order returned a report).
SentCount(position, current_price, out1, out2, t) ==
  (IF FirstOrders(position, current_price) = {NoReport} \/ position.quantity <= 0
      \/ out1.status = "ERROR"
   THEN 0 ELSE 1)
  + (IF SecondOrders(position, current_price, t) = {NoReport} \/ position.quantity <= 0
        \/ out2.status = "ERROR"
     THEN 0 ELSE 1)

\* TradingBot before run() is called
NoBot == [at |-> "none", running |-> FALSE, stop_requested |-> FALSE, market_open |-> FALSE,
          ran |-> {}, shutdowns |-> 0, exit |-> "-"]

\* run() is at this statement of its loop (the checks called on their own
\* have no caller to wait for)
At(where) == mode = "run" => bot.at = where
\* run() goes on to the statement `next`
Moved(b, next) == IF mode = "run" THEN [b EXCEPT !.at = next] ELSE b
\* run() enters one of its two checks
Called(b, check, next) ==
  IF mode = "run" THEN [b EXCEPT !.at = next, !.ran = @ \cup {check}] ELSE b

\* check_stop_loss_and_trailing: positions.items() is taken of the live dict
PassBegin ==
  /\ Idle
  /\ At("stop_check")
  /\ bot' = Called(bot, "stop_check", IF Len(pm_keys) = 0 THEN "signal_check" ELSE "in_pass")
  /\ pass' = IF Len(pm_keys) = 0 THEN pass
             ELSE [at |-> "loop", idx |-> 1, size |-> Len(pm_keys)]
  /\ lastOp' = [op |-> "pass_begin", symbol |-> "-", found |-> FALSE, order |-> "none", returned |-> FALSE, data |-> "-", sent |-> 0]
  /\ UNCHANGED <<mode, callvars, simvars, pm_positions, pm_keys, closed_positions, state_file, now, norders, ndiskfail>>

\* one next() of the dict iterator and, if it yields, the loop body
PassStep ==
  /\ mode \in LiveModes
  /\ pass.at = "loop"
  /\ IF Len(pm_keys) # pass.size
     THEN \* RuntimeError: dictionary changed size during iteration
          /\ pass' = [pass EXCEPT !.at = "crashed"]
          /\ bot' = Moved(bot, "except")
          /\ lastOp' = [op |-> "pass_error", symbol |-> "-", found |-> FALSE, order |-> "none", returned |-> FALSE, data |-> "-", sent |-> 0]
          /\ UNCHANGED <<pm_positions, pm_keys, closed_positions, state_file, ndiskfail>>
     ELSE IF pass.idx > Len(pm_keys)
     THEN /\ pass' = [at |-> "idle", idx |-> 0, size |-> 0]
          /\ bot' = Moved(bot, "signal_check")
          /\ lastOp' = [op |-> "pass_end", symbol |-> "-", found |-> FALSE, order |-> "none", returned |-> FALSE, data |-> "-", sent |-> 0]
          /\ UNCHANGED <<pm_positions, pm_keys, closed_positions, state_file, ndiskfail>>
     ELSE \E current_price \in Quotes \cup {NoPrice} :
            \E out1 \in FirstOrders(pm_positions[pm_keys[pass.idx]], current_price),
               out2 \in SecondOrders(pm_positions[pm_keys[pass.idx]], current_price, now) :
            \E disk \in DiskIf(current_price # NoPrice) :
              /\ CountDisk(disk)
              /\ AssignLedger(CheckOne(Ledger, pm_keys[pass.idx], current_price, out1, out2,
                                       now, disk))
              /\ pass' = [pass EXCEPT !.idx = @ + 1]
              /\ bot' = bot
              /\ lastOp' = [op |-> "pass_step", symbol |-> pm_keys[pass.idx], found |-> TRUE,
                            order |-> OrderNote(SentStatuses(pm_positions[pm_keys[pass.idx]],
                                                             current_price, out1, out2, now)),
                            returned |-> FALSE,
                            data |-> IF current_price = NoPrice THEN "missing" ELSE "present",
                            sent |-> SentCount(pm_positions[pm_keys[pass.idx]], current_price,
                                               out1, out2, now)]
  /\ UNCHANGED <<mode, callvars, simvars, now, norders>>

\* TradingBot._check_buy_signals / _check_sell_signals handing the best signal
\* to execute_trade_signal; balance is what update_account_info read last.
ExecuteTradeSignal ==
  /\ Idle
  /\ mode = "start"
  /\ norders < MaxOrders
  /\ \E symbol \in LiveSymbols, sig \in TradeSignals :
     \E account \in IF sig.type = "buy" THEN Accounts ELSE {NoAccount} :
     \E out \in IF sig.type = "buy" THEN BuyOutcomes
                 ELSE IF sig.type = "sell" /\ symbol \in DOMAIN pm_positions THEN SellOutcomes
                 ELSE {NoReport} :
     \E disk \in DiskIf(out.status \in {"FILL", "PARTIALLYFILL"}) :
         LET r == execute_trade_signal(Ledger, symbol, sig, account.balance * Scale,
                                       account.instrument, out, now, disk)
         IN /\ CountDisk(disk)
            /\ AssignLedger(r.L)
            /\ norders' = IF r.sent # {} THEN norders + 1 ELSE norders
            /\ lastOp' = [op |-> sig.type \o "_signal", symbol |-> symbol,
                          found |-> symbol \in DOMAIN pm_positions,
                          order |-> OrderNote(r.sent), returned |-> r.ok, data |-> "-",
                          sent |-> Cardinality(r.sent \ {"ERROR"})]
  /\ UNCHANGED <<mode, othervars, simvars, now, pass>>

\* the body of the loop of _update_data_and_check_signals for one symbol: df
\* None or empty skips it; else the buy check (no position held) and then the
\* sell check (a position held) hand their signal to execute_trade_signal.
check_signals_no_skip(L, symbol, df, buy, sell, account, out_b, out_s, t, disk) ==
  LET b == IF symbol \in DOMAIN L.positions \/ buy.type # "buy" THEN NotExecuted(L)
           ELSE execute_trade_signal(L, symbol, buy, account.balance * Scale,
                                     account.instrument, out_b, t, disk)
      s == IF symbol \in DOMAIN b.L.positions /\ sell.type = "sell"
           THEN execute_trade_signal(b.L, symbol, sell, account.balance * Scale,
                                     account.instrument, out_s, t, disk)
           ELSE NotExecuted(b.L)
  IN [L |-> s.L, sent_b |-> b.sent, sent_s |-> s.sent]

check_signals(L, symbol, df, buy, sell, account, out_b, out_s, t, disk) ==
  IF df = "None" THEN [L |-> L, sent_b |-> {}, sent_s |-> {}]
  ELSE check_signals_no_skip(L, symbol, df, buy, sell, account, out_b, out_s, t, disk)

\* _update_data_and_check_signals up to its loop: update_account_info
CycleBegin ==
  /\ Idle
  /\ mode \in {"cycle", "run"}
  /\ At("signal_check")
  /\ bot' = Called(bot, "signal_check", "in_cycle")
  /\ norders < MaxOrders
  /\ \E account \in Accounts :
       cycle' = [at |-> "loop", idx |-> 1, account |-> account, skipped |-> {}, checked |-> {}]
  /\ lastOp' = [op |-> "cycle_begin", symbol |-> "-", found |-> FALSE, order |-> "none",
                returned |-> FALSE, data |-> "-", sent |-> 0]
  /\ UNCHANGED <<mode, simvars, sizing, opt, wf, dd, sel, net, fill, pm_positions, pm_keys,
                 closed_positions, state_file, now, norders, ndiskfail, pass>>

\* one turn of the loop over config.SYMBOLS, or its end
CycleStep ==
  /\ mode \in {"cycle", "run"}
  /\ cycle.at = "loop"
  /\ IF cycle.idx > Len(SYMBOLS)
     THEN /\ cycle' = [cycle EXCEPT !.at = "idle"]
          /\ bot' = Moved(bot, "report")
          /\ lastOp' = [op |-> "cycle_end", symbol |-> "-", found |-> FALSE, order |-> "none",
                        returned |-> FALSE, data |-> "-", sent |-> 0]
          /\ UNCHANGED <<pm_positions, pm_keys, closed_positions, state_file, norders, ndiskfail>>
     ELSE \E df \in Frames :
          \E buy \in {sig \in TradeSignals : sig.type \in {"buy", "hold"}},
             sell \in {sig \in TradeSignals : sig.type \in {"sell", "hold"}} :
          \E out_b \in BuyOutcomes, out_s \in SellOutcomes :
          \E disk \in DiskIf(df # "None") :
            LET symbol == SYMBOLS[cycle.idx]
                r == check_signals(Ledger, symbol, df, buy, sell, cycle.account,
                                   out_b, out_s, now, disk)
                sent == Cardinality(r.sent_b) + Cardinality(r.sent_s)
            IN /\ norders + sent <= MaxOrders
               /\ CountDisk(disk)
               /\ AssignLedger(r.L)
               /\ norders' = norders + sent
               /\ bot' = bot
               /\ cycle' = [cycle EXCEPT !.idx = @ + 1,
                                         !.skipped = IF df = "None" THEN @ \cup {symbol} ELSE @,
                                         !.checked = IF df = "None" THEN @ ELSE @ \cup {symbol}]
               /\ lastOp' = [op |-> "cycle_step", symbol |-> symbol,
                             found |-> symbol \in DOMAIN pm_positions,
                             order |-> OrderNote(r.sent_b \cup r.sent_s), returned |-> FALSE,
                             data |-> IF df = "None" THEN "missing" ELSE "present",
                             sent |-> Cardinality(r.sent_b \ {"ERROR"})
                                      + Cardinality(r.sent_s \ {"ERROR"})]
  /\ UNCHANGED <<mode, simvars, sizing, opt, wf, dd, sel, net, fill, now, pass>>

\* The process ends (a stop, or the error that left the pass) and is started
\* again: TradingBot.initialize builds a PositionManager and loads the file.
\* The model follows one process and the load of its successor: mode
\* "restarted" has no further step.
Restart ==
  /\ mode = "live"
  /\ AssignLedger(load_state(state_file))
  /\ mode' = "restarted"
  /\ pass' = [at |-> "idle", idx |-> 0, size |-> 0]
  /\ lastOp' = [op |-> "restart", symbol |-> "-", found |-> FALSE, order |-> "none",
                returned |-> FALSE, data |-> "-", sent |-> 0]
  /\ UNCHANGED <<othervars, simvars, now, norders, ndiskfail>>

AdvanceClock ==
  /\ Idle
  /\ \E step \in ClockSteps :
       /\ now + step <= MaxDay
       /\ now' = now + step
  /\ lastOp' = [op |-> "clock", symbol |-> "-", found |-> FALSE, order |-> "none", returned |-> FALSE, data |-> "-", sent |-> 0]
  /\ UNCHANGED <<mode, othervars, simvars, pm_positions, pm_keys, closed_positions, state_file, norders, pass, ndiskfail>>

\* ------------------------------------------------------------------ actions
\* best_metric_value = float('-inf'): below every metric value
MinusInf == -1
\* best_params = None
NoParams == 0
\* The attributes of Config the simulation's risk rules read, as a record.
BaseConfig ==
  [STOP_LOSS_PERCENT |-> STOP_LOSS_PERCENT, TAKE_PROFIT_PERCENT |-> TAKE_PROFIT_PERCENT,
   MAX_HOLDING_DAYS |-> MAX_HOLDING_DAYS]
\* history of a search: what the simulation of the last combination was given
NoSim == [ran |-> FALSE, strategy |-> BaseConfig, risk |-> BaseConfig, stop_loss |-> 0,
          capital |-> 0, positions |-> 0, trades |-> 0]
NoOpt == [method |-> "none", runs |-> <<>>, k |-> 0, pending |-> {}, all_results |-> <<>>,
          best_metric_value |-> MinusInf, best_params |-> NoParams, pc |-> "done",
          config |-> BaseConfig, sim |-> NoSim]

NoWf == [days |-> 0, window_size |-> 0, step_size |-> 0, current_start |-> 0,
         window_results |-> <<>>, pc |-> "done"]

NoFill == [op |-> "none", symbol |-> "-", direction |-> "-", status |-> "-",
           requested |-> 0, executed |-> 0, before |-> 0]

NoCycle == [at |-> "idle", idx |-> 0, account |-> NoAccount, skipped |-> {}, checked |-> {}]

NoNet == [routine |-> "none", periods |-> 0, outcomes |-> <<>>, period |-> 0, retry |-> 0,
          attempts |-> <<>>, slept |-> <<>>, all_candles |-> 0, pc |-> "returned",
          result |-> "none"]

\* no signal: what a strategy returns as (False, None)
NoSignal == [strategy |-> "none", strength |-> 0]
NoSel == [active |-> {}, STRATEGY_MODE |-> "any", has_position |-> FALSE, trend |-> 0,
          reversal |-> 0, path |-> "none", signals |-> <<>>, executed |-> NoSignal]

NoDd == [equity |-> <<>>, initial_capital |-> 0, path |-> "none", nan |-> FALSE,
         num |-> 0, den |-> 1]

NoSizing == [cap |-> 0, price |-> 0, lot |-> 0, used |-> 0, path |-> "none",
             lots |-> 0, value |-> 0]

InitState ==
  /\ pc = "idle"
  /\ nbars = 0
  /\ i = 0
  /\ date = 0
  /\ last_price = 0
  /\ last_signal = FALSE
  /\ capital = initial_capital * Scale
  /\ max_capital = initial_capital * Scale
  /\ positions = NoPositions
  /\ trades = <<>>
  /\ equity_curve = <<>>
  /\ exc = "none"
  /\ pm_positions = NoPositions
  /\ pm_keys = <<>>
  /\ closed_positions = <<>>
  /\ state_file = NoFile
  /\ now = 0
  /\ norders = 0
  /\ ndiskfail = 0
  /\ pass = [at |-> "idle", idx |-> 0, size |-> 0]
  /\ lastOp = [op |-> "none", symbol |-> "-", found |-> FALSE, order |-> "none", returned |-> FALSE, data |-> "-", sent |-> 0]

Init ==
  /\ mode \in {"backtest", "live", "start"}
  /\ initial_capital \in IF mode = "backtest" THEN InitialCapitals ELSE {INITIAL_CAPITAL}
  /\ sizing = NoSizing
  /\ opt = NoOpt
  /\ wf = NoWf
  /\ dd = NoDd
  /\ sel = NoSel
  /\ net = NoNet
  /\ cycle = NoCycle
  /\ fill = NoFill
  /\ bot = NoBot
  /\ InitState

\* run_backtest up to the first bar: reset the fields, then data.index[lookback]
\* raises IndexError (caught by _run_simulation) when no bar follows the warm-up.
RunBacktest ==
  /\ mode = "backtest"
  /\ pc \in {"idle", "done"}
  /\ \E n \in 0..MaxBars :
       /\ nbars' = n
       /\ pc' = IF n = 0 THEN "done" ELSE "loop"
  /\ i' = 0
  /\ date' = 0
  /\ last_price' = 0
  /\ last_signal' = FALSE
  /\ capital' = initial_capital * Scale
  /\ max_capital' = initial_capital * Scale
  /\ positions' = NoPositions
  /\ trades' = <<>>
  /\ equity_curve' = <<>>
  /\ exc' = "none"
  /\ UNCHANGED <<mode, othervars, initial_capital, livevars>>

Assign(e) ==
  /\ capital' = e.capital
  /\ max_capital' = e.max_capital
  /\ positions' = e.positions
  /\ trades' = e.trades
  /\ exc' = e.exc

\* one iteration of the loop of _run_simulation
Bar ==
  /\ mode = "backtest"
  /\ pc = "loop"
  /\ i < nbars
  /\ \E price \in Prices, step \in DaySteps, sig \in Signals :
       /\ Assign(BarStep(Engine, price, date + step, sig, i + 1))
       /\ date' = date + step
       /\ last_price' = price
       /\ last_signal' = Answered(Engine, price, date + step, sig)
       /\ equity_curve' = record_equity(IF i = 0 THEN <<first_sample(Engine, date + step)>>
                                                  ELSE equity_curve,
                                         Engine, price, date + step)
  /\ i' = i + 1
  /\ UNCHANGED <<mode, othervars, pc, nbars, initial_capital, livevars>>

\* after the last bar
Finish ==
  /\ mode = "backtest"
  /\ pc = "loop"
  /\ i = nbars
  /\ Assign(EndOfRun(Engine, last_price, date, i))
  /\ pc' = "done"
  /\ UNCHANGED <<mode, othervars, nbars, i, date, last_price, initial_capital, last_signal,
                 equity_curve, livevars>>

Next ==
  \/ RunBacktest \/ Bar \/ Finish
  \/ PlaceBuyOrder \/ ClosePosition \/ PassBegin \/ PassStep \/ AdvanceClock
  \/ ExecuteTradeSignal \/ Restart

Spec == Init /\ [][Next]_vars

\* -------------------------------------------- position sizing, call by call
\* The three sizing paths applied to the same arguments: capital and the
\* value of an already open position in rubles, price, lot size.
SizingInputs ==
  [cap : SizingCapitals, price : SizingPrices, lot : SizingLots, used : SizingUsed,
   path : {"none"}, lots : {0}, value : {0}]

\* the open positions of the ledger the sizing call sees
SizingPositions(used) ==
  IF used = 0 THEN NoPositions
  ELSE [s \in {"GAZP"} |-> [value |-> used * Scale]]

SizingInit ==
  /\ mode = "sizing"
  /\ initial_capital = INITIAL_CAPITAL
  /\ sizing \in SizingInputs
  /\ opt = NoOpt
  /\ wf = NoWf
  /\ dd = NoDd
  /\ sel = NoSel
  /\ net = NoNet
  /\ cycle = NoCycle
  /\ fill = NoFill
  /\ bot = NoBot
  /\ InitState

\* what a sizing call leaves behind: the path taken and what it returned
Sized(path, lots, value) ==
  [sizing EXCEPT !.path = path, !.lots = lots, !.value = value]

\* BacktestEngine._open_position on an engine holding cap and no position
SizeOpenPosition ==
  /\ mode = "sizing"
  /\ sizing.path = "none"
  /\ LET e == _open_position([capital |-> sizing.cap * Scale, max_capital |-> sizing.cap * Scale,
                              positions |-> NoPositions, trades |-> <<>>, exc |-> "none"],
                             SimSymbol, sizing.price, 0,
                             [present |-> TRUE, reasons |-> <<>>], 0)
     IN sizing' = IF SimSymbol \in DOMAIN e.positions
                  THEN Sized("_open_position", e.positions[SimSymbol].quantity,
                             e.positions[SimSymbol].value)
                  ELSE Sized("_open_position", 0, 0)
  /\ UNCHANGED frame_sizing

\* RiskManager.calculate_position_size
SizeRiskManager ==
  /\ mode = "sizing"
  /\ sizing.path = "none"
  /\ LET r == calculate_position_size(sizing.cap * Scale, sizing.price,
                                      SizingPositions(sizing.used))
     IN sizing' = Sized("calculate_position_size", r.quantity, r.position_value)
  /\ UNCHANGED frame_sizing

\* TradingExecutor.calculate_quantity
SizeExecutor ==
  /\ mode = "sizing"
  /\ sizing.path = "none"
  /\ LET r == calculate_quantity(sizing.cap * Scale, sizing.price,
                                 SizingPositions(sizing.used),
                                 [found |-> TRUE, lot |-> sizing.lot])
     IN sizing' = Sized("calculate_quantity", r.lots, r.total_value)
  /\ UNCHANGED frame_sizing

SizingNext == SizeOpenPosition \/ SizeRiskManager \/ SizeExecutor

SizingSpec == SizingInit /\ [][SizingNext]_vars

\* ----------------------------------------------------------------- metrics
\* A profit factor: a ratio num/den of money amounts, or float('inf').
Inf == [inf |-> TRUE, num |-> 0, den |-> 0]
Ratio(num, den) == [inf |-> FALSE, num |-> num, den |-> den]
Zero == Ratio(0, 1)

Abs(x) == IF x < 0 THEN -x ELSE x

RECURSIVE SumSeq(_)
SumSeq(q) == IF q = <<>> THEN 0 ELSE Head(q) + SumSeq(Tail(q))

\* engine.py:464-493: for each buy the first sell with its symbol and
\* entry_date; trades_info holds the profit of that sell
matching_sells(tr, buy) ==
  SelectSeq(tr, LAMBDA t : t.type = "sell" /\ t.entry_date = buy.entry_date)

trades_info(tr) ==
  LET matched == SelectSeq(tr, LAMBDA t : t.type = "buy" /\ matching_sells(tr, t) # <<>>)
  IN [k \in 1..Len(matched) |-> matching_sells(tr, matched[k])[1].profit]

\* engine.py:495-509; an empty equity_curve makes set_index('date') raise
\* and the except branch return the short dict with 'error'
_calculate_metrics(tr, curve) ==
  IF curve = <<>>
  THEN [error |-> TRUE, total_trades |-> 0, winning_trades |-> 0, losing_trades |-> 0,
        profit_factor |-> Zero]
  ELSE LET info == trades_info(tr)
           total_trades == Len(info)
           winning_trades == Len(SelectSeq(info, LAMBDA x : x > 0))
           total_profit == SumSeq(SelectSeq(info, LAMBDA x : x > 0))
           total_loss == Abs(SumSeq(SelectSeq(info, LAMBDA x : x <= 0)))
       IN [error |-> FALSE, total_trades |-> total_trades,
           winning_trades |-> winning_trades,
           losing_trades |-> total_trades - winning_trades,
           profit_factor |-> IF total_loss > 0 THEN Ratio(total_profit, total_loss) ELSE Inf]

\* position_manager.py:206-284.  pnl_percent = (close_price / entry_price - 1) * 100
\* has the sign of close_price - entry_price.
calculate_portfolio_metrics(L) ==
  IF DOMAIN L.positions = {} /\ L.closed = <<>>
  THEN [closed_positions |-> 0, win_count |-> 0, loss_count |-> 0, profit_factor |-> Zero]
  ELSE IF Len(L.closed) > 0
  THEN LET winning_trades == SelectSeq(L.closed, LAMBDA c : c.close_price > c.entry_price)
           losing_trades == SelectSeq(L.closed, LAMBDA c : c.close_price <= c.entry_price)
           total_wins == SumSeq([k \in 1..Len(winning_trades) |-> winning_trades[k].pnl_absolute])
           total_losses == SumSeq([k \in 1..Len(losing_trades) |->
                                    Abs(losing_trades[k].pnl_absolute)])
       IN [closed_positions |-> Len(L.closed), win_count |-> Len(winning_trades),
           loss_count |-> Len(losing_trades),
           profit_factor |-> IF total_losses > 0 THEN Ratio(total_wins, total_losses) ELSE Inf]
  ELSE [closed_positions |-> 0, win_count |-> 0, loss_count |-> 0, profit_factor |-> Zero]

\* ------------------------------------------- the ledger, call by call
LedgerInit ==
  /\ mode = "ledger"
  /\ initial_capital = INITIAL_CAPITAL
  /\ sizing = NoSizing
  /\ opt = NoOpt
  /\ wf = NoWf
  /\ dd = NoDd
  /\ sel = NoSel
  /\ net = NoNet
  /\ cycle = NoCycle
  /\ fill = NoFill
  /\ bot = NoBot
  /\ InitState

LedgerNext == PlaceBuyOrder \/ ClosePosition \/ UpdatePosition

LedgerSpec == LedgerInit /\ [][LedgerNext]_vars

\* --------------------------------------------- orders and what was filled
OrdersInit ==
  /\ mode = "orders"
  /\ initial_capital = INITIAL_CAPITAL
  /\ sizing = NoSizing
  /\ opt = NoOpt
  /\ wf = NoWf
  /\ dd = NoDd
  /\ sel = NoSel
  /\ net = NoNet
  /\ cycle = NoCycle
  /\ fill = NoFill
  /\ bot = NoBot
  /\ InitState

OrdersNext == PlaceOrder \/ TradeSignal

OrdersSpec == OrdersInit /\ [][OrdersNext]_vars

\* --------------------------------------------------- the bot's two loops
CycleInit ==
  /\ mode = "cycle"
  /\ initial_capital = INITIAL_CAPITAL
  /\ sizing = NoSizing
  /\ opt = NoOpt
  /\ wf = NoWf
  /\ dd = NoDd
  /\ sel = NoSel
  /\ net = NoNet
  /\ cycle = NoCycle
  /\ fill = NoFill
  /\ bot = NoBot
  /\ InitState

CycleNext == CycleBegin \/ CycleStep \/ PassBegin \/ PassStep

CycleSpec == CycleInit /\ [][CycleNext]_vars

\* ------------------------------------------------------- TradingBot.run
\* the statements of the try block of run()
TryStates == {"while", "sleep60", "stop_check", "in_pass", "signal_check", "in_cycle",
              "report", "sleep1"}

RunOp(name) == [op |-> name, symbol |-> "-", found |-> FALSE, order |-> "none",
                returned |-> FALSE, data |-> "-", sent |-> 0]

RunInit ==
  /\ mode = "run"
  /\ initial_capital = INITIAL_CAPITAL
  /\ sizing = NoSizing
  /\ opt = NoOpt
  /\ wf = NoWf
  /\ dd = NoDd
  /\ sel = NoSel
  /\ net = NoNet
  /\ cycle = NoCycle
  /\ fill = NoFill
  /\ bot = [NoBot EXCEPT !.at = "start"]
  /\ pc = "idle"
  /\ nbars = 0
  /\ i = 0
  /\ date = 0
  /\ last_price = 0
  /\ last_signal = FALSE
  /\ capital = initial_capital * Scale
  /\ max_capital = initial_capital * Scale
  /\ positions = NoPositions
  /\ trades = <<>>
  /\ equity_curve = <<>>
  /\ exc = "none"
  /\ pm_positions = NoPositions
  /\ pm_keys = <<>>
  /\ closed_positions = <<>>
  /\ state_file = NoFile
  /\ now = 0
  \* the run is followed while it has one order left of the MaxOrders
  /\ norders = MaxOrders - 1
  /\ ndiskfail = 0
  /\ pass = [at |-> "idle", idx |-> 0, size |-> 0]
  /\ lastOp = RunOp("none")

\* run(): `if not self.initialize(): return`.  initialize returns False when
\* a connection fails or anything raises; the PositionManager it builds loads
\* the state file.
RunInitialize ==
  /\ mode = "run"
  /\ bot.at = "start"
  /\ \E ok \in BOOLEAN :
       bot' = [bot EXCEPT !.at = IF ok THEN "initialized" ELSE "returned",
                          !.exit = IF ok THEN @ ELSE "init_failed"]
  /\ AssignLedger(load_state(state_file))
  /\ lastOp' = RunOp("initialize")
  /\ UNCHANGED <<mode, callvars, simvars, now, norders, ndiskfail, pass>>

\* self.running = True; self.state_manager.set_running(True)
RunSetRunning ==
  /\ mode = "run"
  /\ bot.at = "initialized"
  /\ bot' = [bot EXCEPT !.running = TRUE, !.at = "while"]
  /\ lastOp' = RunOp("set_running")
  /\ UNCHANGED <<mode, callvars, simvars, pm_positions, pm_keys, closed_positions, state_file,
                 now, norders, ndiskfail, pass>>

\* `while self.running:` and, inside, is_market_open(): closed sends the turn
\* to sleep(60) and `continue`
RunWhile ==
  /\ mode = "run"
  /\ bot.at = "while"
  /\ IF ~bot.running
     THEN bot' = [bot EXCEPT !.at = "finally", !.exit = "stop"]
     ELSE \E market_open \in BOOLEAN :
            bot' = [bot EXCEPT !.market_open = market_open, !.ran = {},
                               !.at = IF market_open THEN "stop_check" ELSE "sleep60"]
  /\ lastOp' = RunOp("while")
  /\ UNCHANGED <<mode, callvars, simvars, pm_positions, pm_keys, closed_positions, state_file,
                 now, norders, ndiskfail, pass>>

\* time.sleep(60) before `continue`, time.sleep(1) at the end of the body
RunSleep ==
  /\ mode = "run"
  /\ bot.at \in {"sleep60", "sleep1"}
  /\ bot' = [bot EXCEPT !.at = "while"]
  /\ lastOp' = RunOp("sleep")
  /\ UNCHANGED <<mode, callvars, simvars, pm_positions, pm_keys, closed_positions, state_file,
                 now, norders, ndiskfail, pass>>

\* a check whose interval has not elapsed is passed over
RunSkip ==
  /\ mode = "run"
  /\ bot.at \in {"stop_check", "signal_check"}
  /\ bot' = [bot EXCEPT !.at = IF bot.at = "stop_check" THEN "signal_check" ELSE "report"]
  /\ lastOp' = RunOp("skip")
  /\ UNCHANGED <<mode, callvars, simvars, pm_positions, pm_keys, closed_positions, state_file,
                 now, norders, ndiskfail, pass>>

\* the hourly _send_status_report, which has no try of its own
RunReport ==
  /\ mode = "run"
  /\ bot.at = "report"
  /\ \E raised \in BOOLEAN :
       bot' = [bot EXCEPT !.at = IF raised THEN "except" ELSE "sleep1"]
  /\ lastOp' = RunOp("report")
  /\ UNCHANGED <<mode, callvars, simvars, pm_positions, pm_keys, closed_positions, state_file,
                 now, norders, ndiskfail, pass>>

\* `except Exception`: log and notify, then the finally clause
RunExcept ==
  /\ mode = "run"
  /\ bot.at = "except"
  /\ bot' = [bot EXCEPT !.at = "finally", !.exit = "exception"]
  /\ pass' = [at |-> "idle", idx |-> 0, size |-> 0]
  /\ lastOp' = RunOp("except")
  /\ UNCHANGED <<mode, callvars, simvars, pm_positions, pm_keys, closed_positions, state_file,
                 now, norders, ndiskfail>>

\* KeyboardInterrupt raised inside the try block: the frames of the checks
\* unwind, `except KeyboardInterrupt` logs, then the finally clause
KeyboardInterrupt ==
  /\ mode = "run"
  /\ bot.at \in TryStates
  /\ bot' = [bot EXCEPT !.at = "finally", !.exit = "interrupt"]
  /\ pass' = [at |-> "idle", idx |-> 0, size |-> 0]
  /\ cycle' = NoCycle
  /\ lastOp' = RunOp("interrupt")
  /\ UNCHANGED <<mode, sizing, opt, wf, dd, sel, net, fill, simvars, pm_positions, pm_keys,
                 closed_positions, state_file, now, norders, ndiskfail>>

\* _handle_exit (SIGINT, SIGTERM; registered in __init__) and stop():
\* self.running = False, whenever the process is alive
StopRequest ==
  /\ mode = "run"
  /\ bot.at \in {"start", "initialized"} \cup TryStates
  /\ bot' = [bot EXCEPT !.running = FALSE, !.stop_requested = TRUE]
  /\ UNCHANGED <<mode, callvars, simvars, livevars>>

\* _shutdown: position_manager.save_state() first, then the bot's own state,
\* the connections and the notification
Shutdown ==
  /\ mode = "run"
  /\ bot.at = "finally"
  /\ \E disk \in Disk :
       /\ CountDisk(disk)
       /\ AssignLedger(save_state(Ledger, disk))
  /\ bot' = [bot EXCEPT !.at = "exited", !.shutdowns = @ + 1]
  /\ lastOp' = RunOp("shutdown")
  /\ UNCHANGED <<mode, callvars, simvars, now, norders, pass>>

\* what run() itself does, and what reaches it from outside
RunProgram ==
  \/ RunInitialize \/ RunSetRunning \/ RunWhile \/ RunSleep \/ RunSkip \/ RunReport
  \/ RunExcept \/ Shutdown \/ PassBegin \/ PassStep \/ CycleBegin \/ CycleStep
RunNext == RunProgram \/ StopRequest \/ KeyboardInterrupt

RunSpec == RunInit /\ [][RunNext]_vars
\* the interpreter goes on executing the thread of run()
RunFairSpec == RunSpec /\ WF_vars(RunProgram)

\* ---------------------------------------------------------- data requests
RECURSIVE Pow2(_)
Pow2(n) == IF n = 0 THEN 1 ELSE 2 * Pow2(n - 1)

\* the seconds slept before the next attempt, without the added 0.5 s / random part
sleep_time(retry) == Pow2(retry)

\* the outcome of the attempt the request is about to make
Outcome(n) == n.outcomes[(n.period - 1) * max_retries + n.retry + 1]

Attempted(n) == [n EXCEPT !.attempts[n.period] = @ + 1]

\* except branch of the retry loops: sleep and go round, or give up on the last attempt
retry_or(n, given_up) ==
  IF n.retry < max_retries - 1
  THEN [n EXCEPT !.slept = Append(@, sleep_time(n.retry)), !.retry = @ + 1]
  ELSE given_up

Returned(n, result) == [n EXCEPT !.pc = "returned", !.result = result]

\* market_data.py:432-448: after the last period, demo data replace missing candles
history_return(n) ==
  Returned(n, IF n.all_candles = 0 THEN "sample_data" ELSE "data")

\* market_data.py:431-432: the next period of the history request, or its end
next_period(n) ==
  IF n.period < n.periods
  THEN [n EXCEPT !.period = @ + 1, !.retry = 0]
  ELSE history_return(n)

NetInit ==
  /\ mode = "request"
  /\ initial_capital = INITIAL_CAPITAL
  /\ sizing = NoSizing
  /\ opt = NoOpt
  /\ wf = NoWf
  /\ dd = NoDd
  /\ sel = NoSel
  /\ cycle = NoCycle
  /\ fill = NoFill
  /\ bot = NoBot
  /\ \E routine \in {"get_instrument_info", "get_historical_candles", "get_historical_data"} :
     \E periods \in PeriodCounts :
     \E outcomes \in [1..(periods * max_retries) -> Outcomes] :
       /\ routine # "get_historical_data" => periods = 1
       /\ net = [routine |-> routine, periods |-> periods, outcomes |-> outcomes,
                 period |-> 1, retry |-> 0, attempts |-> [k \in 1..periods |-> 0],
                 slept |-> <<>>, all_candles |-> 0, pc |-> "calling", result |-> "none"]
  /\ InitState

\* TinkoffClient.get_instrument_info: one turn of its retry loop
InstrumentInfoAttempt ==
  /\ mode = "request"
  /\ net.pc = "calling"
  /\ net.routine = "get_instrument_info"
  /\ LET n == Attempted(net)
     IN net' = IF Outcome(net) = "ok" THEN Returned(n, "data")
               ELSE retry_or(n, Returned(n, "None"))
  /\ UNCHANGED frame_net

\* TinkoffClient.get_historical_candles: one turn of its retry loop
HistoricalCandlesAttempt ==
  /\ mode = "request"
  /\ net.pc = "calling"
  /\ net.routine = "get_historical_candles"
  /\ LET n == Attempted(net)
     IN net' = CASE Outcome(net) = "ok" -> Returned(n, "data")
                 [] Outcome(net) = "RequestError" -> retry_or(n, Returned(n, "empty"))
                 [] OTHER -> Returned(n, "empty")
  /\ UNCHANGED frame_net

\* MarketDataProvider.get_historical_data: one turn of the retry loop of a period
HistoricalDataAttempt ==
  /\ mode = "request"
  /\ net.pc = "calling"
  /\ net.routine = "get_historical_data"
  /\ LET n == Attempted(net)
     IN net' = IF Outcome(net) = "ok"
               THEN next_period([n EXCEPT !.all_candles = @ + 1])
               ELSE retry_or(n, next_period(n))
  /\ UNCHANGED frame_net

NetNext == InstrumentInfoAttempt \/ HistoricalCandlesAttempt \/ HistoricalDataAttempt

NetSpec == NetInit /\ [][NetNext]_vars

\* ------------------------------------------------------- signal selection
\* what TrendStrategy / ReversalStrategy return: a signal with its strength, or none
strategy_signal(name, strength) ==
  IF strength = 0 THEN NoSignal ELSE [strategy |-> name, strength |-> strength]

\* CombinedStrategy in mode 'any' with both signals: trend only if strictly stronger
selected_strictly(t, r) ==
  IF t > r THEN [strategy |-> "CombinedStrategy (trend)", strength |-> Min(MaxStrength, t + ConfirmedBonus)]
  ELSE [strategy |-> "CombinedStrategy (reversal)", strength |-> Min(MaxStrength, r + ConfirmedBonus)]

\* combined.py:79-99 and 143-163: both base strategies signalled
selected_details(t, r) ==
  IF t >= r THEN [strategy |-> "CombinedStrategy (trend)", strength |-> Min(MaxStrength, t + ConfirmedBonus)]
  ELSE [strategy |-> "CombinedStrategy (reversal)", strength |-> Min(MaxStrength, r + ConfirmedBonus)]

\* CombinedStrategy.check_buy_signals / check_sell_signals (the latter always 'any')
combined_signal(combine_mode, t, r) ==
  IF combine_mode = "all"
  THEN IF t > 0 /\ r > 0
       THEN [strategy |-> "CombinedStrategy", strength |-> IF t >= r THEN t ELSE r]
       ELSE NoSignal
  ELSE IF t > 0 /\ r > 0 THEN selected_details(t, r)
       ELSE IF t > 0 THEN [strategy |-> "CombinedStrategy (trend)", strength |-> t]
       ELSE IF r > 0 THEN [strategy |-> "CombinedStrategy (reversal)", strength |-> r]
       ELSE NoSignal

\* the strategies of the bot in insertion order (bot.py:162-173)
strategies(active) ==
  (IF "trend" \in active THEN <<"trend">> ELSE <<>>) \o
  (IF "reversal" \in active THEN <<"reversal">> ELSE <<>>) \o
  (IF {"trend", "reversal"} \subseteq active THEN <<"combined">> ELSE <<>>)

\* the loop over self.strategies.items(): the details of those that signalled
RECURSIVE collect_signals(_, _, _, _)
collect_signals(names, combine_mode, t, r) ==
  IF names = <<>> THEN <<>>
  ELSE LET signal == CASE Head(names) = "trend" -> strategy_signal("TrendStrategy", t)
                       [] Head(names) = "reversal" -> strategy_signal("ReversalStrategy", r)
                       [] OTHER -> combined_signal(combine_mode, t, r)
       IN (IF signal = NoSignal THEN <<>> ELSE <<signal>>) \o
          collect_signals(Tail(names), combine_mode, t, r)

\* list.sort(key=strength, reverse=True): stable, equal strengths keep their order
RECURSIVE insert_sorted(_, _)
insert_sorted(q, x) ==
  IF q = <<>> THEN <<x>>
  ELSE IF Head(q).strength >= x.strength THEN <<Head(q)>> \o insert_sorted(Tail(q), x)
  ELSE <<x>> \o q

RECURSIVE sort_by_strength(_)
sort_by_strength(q) ==
  IF q = <<>> THEN <<>>
  ELSE insert_sorted(sort_by_strength(SubSeq(q, 1, Len(q) - 1)), q[Len(q)])

\* bot.py:319-328 and 353-362: the signal handed to execute_trade_signal
best_signal(signals) ==
  IF signals = <<>> THEN NoSignal
  ELSE IF Len(signals) > 1 THEN sort_by_strength(signals)[1]
  ELSE signals[1]

SelInit ==
  /\ mode = "signals"
  /\ initial_capital = INITIAL_CAPITAL
  /\ sizing = NoSizing
  /\ opt = NoOpt
  /\ wf = NoWf
  /\ dd = NoDd
  /\ net = NoNet
  /\ cycle = NoCycle
  /\ fill = NoFill
  /\ bot = NoBot
  /\ sel \in [active : {{"trend"}, {"reversal"}, {"trend", "reversal"}},
               STRATEGY_MODE : {"any", "all"}, has_position : BOOLEAN,
               trend : Strengths \cup {0}, reversal : Strengths \cup {0},
               path : {"none"}, signals : {<<>>}, executed : {NoSignal}]
  /\ InitState

\* TradingBot._check_buy_signals
CheckBuySignals ==
  /\ mode = "signals"
  /\ sel.path = "none"
  /\ LET signals == IF sel.has_position THEN <<>>
                    ELSE collect_signals(strategies(sel.active), sel.STRATEGY_MODE,
                                         sel.trend, sel.reversal)
     IN sel' = [sel EXCEPT !.path = "_check_buy_signals", !.signals = signals,
                           !.executed = best_signal(signals)]
  /\ UNCHANGED frame_sel

\* TradingBot._check_sell_signals, called for an instrument with a position
CheckSellSignals ==
  /\ mode = "signals"
  /\ sel.path = "none"
  /\ sel.has_position
  /\ LET signals == collect_signals(strategies(sel.active), "any", sel.trend, sel.reversal)
     IN sel' = [sel EXCEPT !.path = "_check_sell_signals", !.signals = signals,
                           !.executed = best_signal(signals)]
  /\ UNCHANGED frame_sel

SelNext == CheckBuySignals \/ CheckSellSignals

SelSpec == SelInit /\ [][SelNext]_vars

\* --------------------------------------------------------------- drawdown
\* A drawdown is a fraction num/den of the peak (times 100 in the engine), or
\* NaN.  Fractions are compared by cross-multiplication.
Greater(a, b) == a.num * b.den > b.num * a.den

\* the loop of engine.py:524-556 over the equity values from row k on.
\* st: max_drawdown, peak, the depths of drawdown_periods, and whether
\* current_drawdown_start is set.
RECURSIVE drawdown_loop(_, _, _)
drawdown_loop(equity, k, st) ==
  IF k > Len(equity) THEN st
  ELSE
    LET e == equity[k]
        st1 == IF e > st.peak
               THEN IF st.started
                    THEN [st EXCEPT !.depths = Append(@, st.max_drawdown), !.started = FALSE,
                                    !.max_drawdown = Ratio(0, 1), !.peak = e]
                    ELSE [st EXCEPT !.peak = e]
               ELSE st
        drawdown == Ratio(st1.peak - e, st1.peak)
        st2 == IF st1.peak > 0
               THEN [st1 EXCEPT !.started = @ \/ drawdown.num > 0,
                                !.max_drawdown = IF Greater(drawdown, @) THEN drawdown ELSE @]
               ELSE st1
    IN drawdown_loop(equity, k + 1, st2)

RECURSIVE MaxRatio(_)
MaxRatio(q) ==
  IF Len(q) = 1 THEN q[1]
  ELSE LET m == MaxRatio(Tail(q)) IN IF Greater(q[1], m) THEN q[1] ELSE m

\* engine.py:523-567: max_overall_drawdown
engine_max_drawdown(equity, capital0) ==
  LET st == drawdown_loop(equity, 1, [max_drawdown |-> Ratio(0, 1), peak |-> capital0,
                                      depths |-> <<>>, started |-> FALSE])
      depths == IF st.started THEN Append(st.depths, st.max_drawdown) ELSE st.depths
  IN IF depths = <<>> THEN Ratio(0, 1) ELSE MaxRatio(depths)

\* equity_curve.expanding().max() at row k
RECURSIVE running_max(_, _)
running_max(equity, k) ==
  IF k = 1 THEN equity[1]
  ELSE LET m == running_max(equity, k - 1) IN IF equity[k] > m THEN equity[k] ELSE m

\* metrics.py:131-154: abs((equity / running_max - 1).min()).  0 / 0 is NaN,
\* min() skips NaN and is NaN when nothing is left.
calculate_max_drawdown(equity) ==
  LET defined == {k \in 1..Len(equity) : running_max(equity, k) > 0}
      drawdown(k) == Ratio(running_max(equity, k) - equity[k], running_max(equity, k))
  IN IF defined = {} THEN [nan |-> TRUE, num |-> 0, den |-> 1]
     ELSE LET k == CHOOSE x \in defined :
                     \A y \in defined : ~Greater(drawdown(y), drawdown(x))
          IN [nan |-> FALSE, num |-> drawdown(k).num, den |-> drawdown(k).den]

DdInit ==
  /\ mode = "drawdown"
  /\ initial_capital = INITIAL_CAPITAL
  /\ sizing = NoSizing
  /\ opt = NoOpt
  /\ wf = NoWf
  /\ sel = NoSel
  /\ net = NoNet
  /\ cycle = NoCycle
  /\ fill = NoFill
  /\ bot = NoBot
  /\ dd \in [equity : UNION {[1..n -> EquityValues] : n \in 1..MaxSeries},
              initial_capital : PeakCapitals, path : {"none"}, nan : {FALSE},
              num : {0}, den : {1}]
  /\ InitState

\* BacktestEngine._calculate_metrics on an engine whose equity_curve is the series
EngineDrawdown ==
  /\ mode = "drawdown"
  /\ dd.path = "none"
  /\ LET r == engine_max_drawdown(dd.equity, dd.initial_capital)
     IN dd' = [dd EXCEPT !.path = "_calculate_metrics", !.num = r.num, !.den = r.den]
  /\ UNCHANGED frame_dd

\* PerformanceMetrics.calculate_max_drawdown(series)
MetricsDrawdown ==
  /\ mode = "drawdown"
  /\ dd.path = "none"
  /\ LET r == calculate_max_drawdown(dd.equity)
     IN dd' = [dd EXCEPT !.path = "calculate_max_drawdown", !.nan = r.nan,
                         !.num = r.num, !.den = r.den]
  /\ UNCHANGED frame_dd

DdNext == EngineDrawdown \/ MetricsDrawdown

DdSpec == DdInit /\ [][DdNext]_vars

\* ------------------------------------------------------------- properties
Sells == {k \in 1..Len(trades) : trades[k].type = "sell"}
Buys == {k \in 1..Len(trades) : trades[k].type = "buy"}
Held == SimSymbol \in DOMAIN positions
IsStopLoss(reason) == reason \in {"stop_loss (fixed)", "stop_loss (trailing)"}
IsStrategy(reason) == reason \in {"strategy_signal", "strategy_signal: rule"}
\* a step of the bar loop
BarTaken == mode = "backtest" /\ pc = "loop" /\ i' = i + 1

\* ------------------------------------------------------- parameter search
\* What run_backtest hands back for one combination: the metrics dict (here
\* the value of the chosen metric), {"error": ...} without the metric, or
\* None after an exception.  _calculate_metrics always gives a dict.
RunOutcomes ==
  [kind : {"metrics"}, value : MetricValues]
    \cup {[kind |-> "error", value |-> 0], [kind |-> "None", value |-> 0]}

HasMetric(result) == result.kind = "metrics"

\* runs[k] is the outcome of the k-th combination of product(*param_values);
\* a combination is named by its place k in that order.
RunLists(outcomes) ==
  UNION {[1..n -> outcomes] : n \in 1..MaxCombos}

\* the locals of a search before its first combination
SearchStart(method, runs) ==
  [method |-> method, runs |-> runs, k |-> 0,
   pending |-> IF method = "parallel" THEN 1..Len(runs) ELSE {},
   all_results |-> <<>>, best_metric_value |-> MinusInf, best_params |-> NoParams,
   pc |-> "loop", config |-> BaseConfig, sim |-> NoSim]

OptInputs(method, outcomes) == {SearchStart(method, r) : r \in RunLists(outcomes)}

OptInit ==
  /\ mode = "optimize"
  /\ initial_capital = INITIAL_CAPITAL
  /\ sizing = NoSizing
  /\ opt \in OptInputs("sequential", RunOutcomes)
            \cup OptInputs("parallel", RunOutcomes)
            \cup OptInputs("engine", {r \in RunOutcomes : r.kind # "None"})
  /\ wf = NoWf
  /\ dd = NoDd
  /\ sel = NoSel
  /\ net = NoNet
  /\ cycle = NoCycle
  /\ fill = NoFill
  /\ bot = NoBot
  /\ InitState

\* parameter_ranges = {'STOP_LOSS_PERCENT': [1.5, 2.0, 2.5, 3.0]} in 1/Scale:
\* the k-th combination of the product
StopLossRange == <<15, 20, 25, 30>>

\* config_copy = deepcopy(self.config), then setattr for each parameter
config_copy(config, k) == [config EXCEPT !.STOP_LOSS_PERCENT = StopLossRange[k]]

\* the levels _open_position gives an entry (engine.py:336-341)
entry_levels(config, price) ==
  [stop_loss |-> price * (Scale - config.STOP_LOSS_PERCENT),
   take_profit |-> price * (Scale + config.TAKE_PROFIT_PERCENT)]

\* A simulation as it starts: the config its strategy holds, the config the
\* engine that runs it reads (self.config), the stop it gives an entry at
\* 100, and the engine's fields after the reset.
simulation(strategy_config, engine_config) ==
  [ran |-> TRUE, strategy |-> strategy_config, risk |-> engine_config,
   stop_loss |-> entry_levels(engine_config, 100).stop_loss,
   capital |-> INITIAL_CAPITAL, positions |-> 0, trades |-> 0]

\* BacktestEngine(config_copy).run_backtest: the strategy is made from the
\* engine's config (_create_strategy), the fields are reset (engine.py:101-106)
run_backtest(config, run) ==
  IF run.kind = "metrics" THEN simulation(config, config) ELSE NoSim

\* the test of _grid_search and _parallel_grid_search for a new best
IsBetter(result, best_metric_value) ==
  HasMetric(result) /\ (result.value > best_metric_value \/ best_metric_value = MinusInf)

\* one iteration of the loop of _grid_search (optimizer.py:185-217);
\* result['parameters'] = params raises TypeError on None, which nothing catches
grid_iteration(o, k) ==
  LET result == o.runs[k]
  IN IF result.kind = "None" THEN [o EXCEPT !.k = k, !.pc = "raised", !.sim = NoSim]
     ELSE LET o1 == [o EXCEPT !.k = k,
                              !.sim = run_backtest(config_copy(o.config, k), result),
                              !.all_results = Append(@, [parameters |-> k, result |-> result])]
          IN IF IsBetter(result, o.best_metric_value)
             THEN [o1 EXCEPT !.best_metric_value = result.value, !.best_params = k]
             ELSE o1

\* _grid_search from iteration k on, up to its return
RECURSIVE _grid_search(_, _)
_grid_search(o, k) ==
  IF o.pc = "raised" THEN o
  ELSE IF k > Len(o.runs) THEN [o EXCEPT !.pc = "done"]
  ELSE _grid_search(grid_iteration(o, k), k + 1)

\* one iteration of the loop of BacktestEngine.optimize_parameters
\* (engine.py:816-863): the strategy is made from config_copy, the fields are
\* reset and self._run_simulation runs on this engine, whose self.config is
\* the one it was built with; then results.get(metric, -inf) > best_metric_value
optimize_iteration(o, k) ==
  LET results == o.runs[k]
      metric_value == IF HasMetric(results) THEN results.value ELSE MinusInf
      o1 == [o EXCEPT !.k = k,
                      !.sim = simulation(config_copy(o.config, k), o.config),
                      !.all_results = Append(@, [parameters |-> k, result |-> results])]
  IN IF metric_value > o.best_metric_value
     THEN [o1 EXCEPT !.best_metric_value = metric_value, !.best_params = k]
     ELSE o1

\* run_backtest_with_params, the function the pool is given
\* (optimizer.py:276-301): it is local to _parallel_grid_search
Raised == [parameters |-> NoParams, result |-> [kind |-> "raised", value |-> 0]]

run_backtest_with_params(run, k) ==
  IF run.kind = "None" THEN Raised ELSE [parameters |-> k, result |-> run]

\* pickle takes functions by qualified name and refuses a local one
PicklableWorker == FALSE

\* future.result(): ProcessPoolExecutor pickles the work item to hand it to a
\* worker process; when that fails the future holds the exception
future_result(run, k) ==
  IF PicklableWorker THEN run_backtest_with_params(run, k) ELSE Raised

\* the loop over all_results after the pool is done (optimizer.py:329-338)
RECURSIVE select_best(_, _)
select_best(o, j) ==
  IF j > Len(o.all_results) THEN [o EXCEPT !.pc = "done"]
  ELSE LET r == o.all_results[j]
       IN IF IsBetter(r.result, o.best_metric_value)
          THEN select_best([o EXCEPT !.best_metric_value = r.result.value,
                                     !.best_params = r.parameters], j + 1)
          ELSE select_best(o, j + 1)

Searching(method) ==
  /\ mode = "optimize"
  /\ opt.method = method
  /\ opt.pc = "loop"

GridSearchStep ==
  /\ Searching("sequential")
  /\ opt.k < Len(opt.runs)
  /\ opt' = grid_iteration(opt, opt.k + 1)
  /\ UNCHANGED frame_opt

OptimizeParametersStep ==
  /\ Searching("engine")
  /\ opt.k < Len(opt.runs)
  /\ opt' = optimize_iteration(opt, opt.k + 1)
  /\ UNCHANGED frame_opt

\* after the last combination: the result dict is built and returned
SearchReturn ==
  /\ Searching("sequential") \/ Searching("engine")
  /\ opt.k = Len(opt.runs)
  /\ opt' = [opt EXCEPT !.pc = "done"]
  /\ UNCHANGED frame_opt

\* as_completed yields the futures in the order they finish
FutureCompleted ==
  /\ Searching("parallel")
  /\ \E j \in opt.pending :
       LET result == future_result(opt.runs[j], j)
       IN opt' = [opt EXCEPT !.pending = @ \ {j},
                             !.k = @ + 1,
                             !.all_results = IF result = Raised THEN @ ELSE Append(@, result)]
  /\ UNCHANGED frame_opt

SelectBest ==
  /\ Searching("parallel")
  /\ opt.pending = {}
  /\ opt' = select_best(opt, 1)
  /\ UNCHANGED frame_opt

OptNext ==
  GridSearchStep \/ OptimizeParametersStep \/ SearchReturn \/ FutureCompleted \/ SelectBest

OptSpec == OptInit /\ [][OptNext]_vars

\* ------------------------------------------------ walk-forward optimization
\* start_date is day 0 and end_date day wf.days.  The grid search of a window
\* is taken to return parameters; window_results keeps the dates of a window.
WfInit ==
  /\ mode = "walk_forward"
  /\ initial_capital = INITIAL_CAPITAL
  /\ sizing = NoSizing
  /\ opt = NoOpt
  /\ dd = NoDd
  /\ sel = NoSel
  /\ net = NoNet
  /\ cycle = NoCycle
  /\ fill = NoFill
  /\ bot = NoBot
  /\ wf \in [days : RangeDays, window_size : WindowSizes, step_size : StepSizes,
              current_start : {0}, window_results : {<<>>}, pc : {"loop"}]
  /\ InitState

\* while current_start + timedelta(days=window_size) <= end_date
window_fits_strict(current_start, window_size, end_date) ==
  current_start + window_size < end_date

window_fits(current_start, window_size, end_date) ==
  current_start + window_size <= end_date

\* the dates of one window (optimizer.py:386-388, 423-432)
window_result(current_start, window_size, step_size, end_date) ==
  LET window_end == current_start + window_size
      validation_end == Min(window_end + step_size, end_date)
  IN [optimization_window |-> [start_date |-> current_start, end_date |-> window_end],
      validation_window |-> [start_date |-> window_end, end_date |-> validation_end]]

\* one iteration of the while loop
WalkForwardWindow ==
  /\ mode = "walk_forward"
  /\ wf.pc = "loop"
  /\ window_fits(wf.current_start, wf.window_size, wf.days)
  /\ wf' = [wf EXCEPT !.window_results =
                        IF Len(@) < MaxWindows
                        THEN Append(@, window_result(wf.current_start, wf.window_size,
                                                     wf.step_size, wf.days))
                        ELSE @,
                      !.current_start = @ + wf.step_size]
  /\ UNCHANGED frame_wf

\* the loop is left and the result built
WalkForwardReturn ==
  /\ mode = "walk_forward"
  /\ wf.pc = "loop"
  /\ ~window_fits(wf.current_start, wf.window_size, wf.days)
  /\ wf' = [wf EXCEPT !.pc = "done"]
  /\ UNCHANGED frame_wf

WfNext == WalkForwardWindow \/ WalkForwardReturn

WfSpec == WfInit /\ [][WfNext]_vars

\* the same call with any step the function takes; the interpreter goes on
\* executing the loop
WfAnyInit ==
  /\ mode = "walk_forward"
  /\ initial_capital = INITIAL_CAPITAL
  /\ sizing = NoSizing
  /\ opt = NoOpt
  /\ dd = NoDd
  /\ sel = NoSel
  /\ net = NoNet
  /\ cycle = NoCycle
  /\ fill = NoFill
  /\ bot = NoBot
  /\ wf \in [days : RangeDays, window_size : WindowSizes, step_size : AnyStepSizes,
              current_start : {0}, window_results : {<<>>}, pc : {"loop"}]
  /\ InitState

WfAnySpec == WfAnyInit /\ [][WfNext]_vars /\ WF_vars(WfNext)

\* C1: when a simulation run has ended no position is open, and a position
\* that was still open after the last bar was closed at that bar's close.
C1_RunEndsFlat ==
  pc = "done" =>
    /\ DOMAIN positions = {}
    /\ \A k \in Sells : trades[k].reason = "end_of_backtest" =>
         /\ trades[k].exit_price = last_price
         /\ trades[k].bar = nbars
         /\ k = Len(trades)

C1_Witness ==
  /\ pc = "done"
  /\ Len(trades) > 0
  /\ trades[Len(trades)].type = "sell"
  /\ trades[Len(trades)].reason = "end_of_backtest"

\* C2: at every point of a run the number of buy records equals the number
\* of sell records plus the number of open positions, and a bar that starts
\* and ends without a position (a buy signal not acted on included) changes
\* neither number.
CountsAgree == Cardinality(Buys) = Cardinality(Sells) + Cardinality(DOMAIN positions)

C2_NoPhantomExposure ==
  /\ CountsAgree
  /\ [][/\ CountsAgree'
        /\ (BarTaken /\ ~Held /\ ~Held') => trades' = trades]_vars

C2_Witness ==
  /\ Held
  /\ Cardinality(Sells) > 0
  /\ Cardinality(Buys) = Cardinality(Sells) + 1

\* C3: opening a position for an instrument that already has one is rejected
\* and leaves the position's entry price, quantity and stop levels as they
\* were, in the ledger (add_position) and in the simulation (_open_position).
C3_ReentryRejected ==
  [][/\ (lastOp'.op = "add_position" /\ lastOp'.found) =>
          /\ lastOp'.symbol \in DOMAIN pm_positions'
          /\ pm_positions'[lastOp'.symbol].entry_price = pm_positions[lastOp'.symbol].entry_price
          /\ pm_positions'[lastOp'.symbol].quantity = pm_positions[lastOp'.symbol].quantity
          /\ pm_positions'[lastOp'.symbol].stop_loss = pm_positions[lastOp'.symbol].stop_loss
          /\ pm_positions'[lastOp'.symbol].take_profit = pm_positions[lastOp'.symbol].take_profit
     /\ (BarTaken /\ Held /\ Held') =>
          /\ positions'[SimSymbol].entry_price = positions[SimSymbol].entry_price
          /\ positions'[SimSymbol].quantity = positions[SimSymbol].quantity
          /\ Buys' = Buys]_vars

\* C4: while a long position is held its stop_loss never decreases from one
\* bar to the next, nor over a step of the live stop-check pass.
C4_StopMonotone ==
  [][/\ (BarTaken /\ Held /\ Held') =>
          positions'[SimSymbol].stop_loss >= positions[SimSymbol].stop_loss
     /\ lastOp'.op = "pass_step" =>
          \A s \in DOMAIN pm_positions \cap DOMAIN pm_positions' :
            pm_positions'[s].stop_loss >= pm_positions[s].stop_loss]_vars

C4_Witness ==
  /\ lastOp.op = "pass_step"
  /\ lastOp.symbol \in DOMAIN pm_positions
  /\ pm_positions[lastOp.symbol].stop_loss
       > pm_positions[lastOp.symbol].entry_price * (Scale - STOP_LOSS_PERCENT)

\* C5: a bar records at most one close, and the reason of a close follows the
\* precedence stop_loss, take_profit, max_holding_time; a strategy sell (or the
\* close at the end of the run) is recorded only when none of the three held.
StopHit(t) == t.exit_price * Scale <= t.pos.stop_loss
TargetHit(t) == t.exit_price * Scale >= t.pos.take_profit
TimeHit(t) == t.exit_date - t.entry_date >= MAX_HOLDING_DAYS

C5_ExitPrecedence ==
  /\ \A k \in Sells :
       LET t == trades[k]
       IN /\ StopHit(t) => IsStopLoss(t.reason)
          /\ (~StopHit(t) /\ TargetHit(t)) => t.reason = "take_profit"
          /\ (~StopHit(t) /\ ~TargetHit(t) /\ TimeHit(t)) => t.reason = "max_holding_time"
          /\ (~StopHit(t) /\ ~TargetHit(t) /\ ~TimeHit(t)) =>
               (IsStrategy(t.reason) \/ t.reason = "end_of_backtest")
  /\ \A k1, k2 \in Sells : trades[k1].bar = trades[k2].bar => k1 = k2

C5_Witness ==
  \E k \in Sells :
    /\ StopHit(trades[k])
    /\ TimeHit(trades[k])
    /\ IsStopLoss(trades[k].reason)

\* C6: a bar on which a position is closed closes it at that bar's close
\* price and records nothing else: no position is opened on the same bar.
C6_NoReentryOnExitBar ==
  [][(/\ BarTaken
      /\ Len(trades') > Len(trades)
      /\ trades'[Len(trades) + 1].type = "sell") =>
        /\ Len(trades') = Len(trades) + 1
        /\ trades'[Len(trades) + 1].exit_price = last_price'
        /\ ~Held']_vars

C6_Witness ==
  /\ pc = "loop"
  /\ Len(trades) > 0
  /\ trades[Len(trades)].type = "sell"
  /\ trades[Len(trades)].bar = i
  /\ ~IsStrategy(trades[Len(trades)].reason)
  /\ i < nbars

\* C7: the profit of a closed trade is close_value - entry_value minus the
\* commission of the entry record minus the commission of the exit record,
\* each being the commission rate times that leg's value.
C7_ProfitNetOfBothCommissions ==
  \A k \in Sells :
    /\ k > 1
    /\ trades[k - 1].type = "buy"
    /\ trades[k - 1].commission * Scale = COMMISSION_RATE * trades[k - 1].value
    /\ trades[k].commission = COMMISSION_RATE * trades[k].quantity * trades[k].exit_price
    /\ trades[k].profit = trades[k].quantity * trades[k].exit_price * Scale
                            - trades[k - 1].value
                            - trades[k - 1].commission
                            - trades[k].commission

C7_Witness ==
  \E k \in Sells : trades[k].exit_price # trades[k].entry_price

\* C8: the absolute profit the ledger records on a close is net of the
\* commission on the entry leg and on the exit leg.
C8_LedgerProfitNetOfCommission ==
  \A k \in 1..Len(closed_positions) :
    LET c == closed_positions[k]
    IN c.pnl_absolute = (c.close_price - c.entry_price) * c.quantity * Scale
                          - c.entry_price * c.quantity * COMMISSION_RATE
                          - c.close_price * c.quantity * COMMISSION_RATE

C10_FailedMutationChangesNothing ==
  [][exc' # "none" =>
        /\ capital' = capital
        /\ positions' = positions
        /\ trades' = trades]_vars

C10_Witness ==
  /\ exc = "open"
  /\ Len(trades) > 0
  /\ capital # initial_capital * Scale

\* C11: an order the broker rejects, or whose call raises, makes place_order
\* return no id and leaves the ledger as it was; the signal path and the
\* stop-check pass open or close a position in the ledger only in a step in
\* which an order was reported filled or partially filled.
SameOpenAndClosed ==
  /\ DOMAIN pm_positions' = DOMAIN pm_positions
  /\ \A s \in DOMAIN pm_positions :
       /\ pm_positions'[s].entry_price = pm_positions[s].entry_price
       /\ pm_positions'[s].quantity = pm_positions[s].quantity
  /\ closed_positions' = closed_positions

C11_FailedOrderLeavesLedger ==
  [][/\ (lastOp'.op \in {"add_position", "none"} /\ lastOp'.order = "failed") =>
          /\ ~lastOp'.returned
          /\ UNCHANGED <<pm_positions, pm_keys, closed_positions, state_file>>
     /\ (lastOp'.op \in {"buy_signal", "sell_signal"} /\ lastOp'.order = "failed") =>
          /\ ~lastOp'.returned
          /\ UNCHANGED <<pm_positions, pm_keys, closed_positions, state_file>>
     /\ (lastOp'.op = "pass_step" /\ lastOp'.order = "failed") => SameOpenAndClosed
     /\ (lastOp'.op \in {"buy_signal", "sell_signal", "hold_signal", "pass_step"}
           /\ ~SameOpenAndClosed) => lastOp'.order = "ok"]_vars

C11_Witness ==
  /\ lastOp.op = "pass_step"
  /\ lastOp.order = "failed"
  /\ lastOp.symbol \in DOMAIN pm_positions
  /\ mode = "start"
  /\ state_file.state = "ok"

\* C12: the state file holds the ledger after every operation that changes
\* it, and a restart (a new PositionManager and load_state) resumes with the
\* open positions and the closed list the ledger had.
SnapshotIsLedger ==
  \/ /\ state_file.state = "ok"
     /\ state_file.positions = pm_positions
     /\ state_file.closed = closed_positions
  \/ /\ state_file.state = "absent"
     /\ DOMAIN pm_positions = {}
     /\ closed_positions = <<>>

C12_RestartResumesLedger ==
  /\ SnapshotIsLedger
  /\ [][/\ SnapshotIsLedger'
        /\ lastOp'.op = "restart" =>
             /\ pm_positions' = pm_positions
             /\ closed_positions' = closed_positions]_vars

C14_Sizes89Lots ==
  (/\ sizing.cap = 50000
   /\ sizing.price = 500
   /\ sizing.lot = 1
   /\ sizing.used = 0
   /\ sizing.path # "none") => sizing.lots = 89

\* C18: calculate_position_size returns (0, 0) whenever the amount it
\* allocates does not buy one lot at the price with commission.
C18_UnaffordableSizeIsZero ==
  (/\ sizing.path = "calculate_position_size"
   /\ Min(sizing.cap - sizing.used, int_div(sizing.cap * MAX_POSITION_SIZE, 10)) * Scale
        < sizing.price * commission_factor)
     => (sizing.value = 0 /\ sizing.lots = 0)

\* The scenario of C15: the position entered at 100 and the bars after it.
Entered100 ==
  /\ SimSymbol \in DOMAIN positions'
  /\ SimSymbol \notin DOMAIN positions
  /\ positions'[SimSymbol].entry_price = 100

Held100(high) ==
  /\ SimSymbol \in DOMAIN positions
  /\ positions[SimSymbol].entry_price = 100
  /\ positions[SimSymbol].max_price = high

ClosedBy(reasons) ==
  /\ SimSymbol \notin DOMAIN positions'
  /\ Len(trades') = Len(trades) + 1
  /\ trades'[Len(trades')].type = "sell"
  /\ trades'[Len(trades')].exit_price = last_price'
  /\ trades'[Len(trades')].reason \in reasons

StopLossReasons == {"stop_loss", "stop_loss (fixed)", "stop_loss (trailing)"}
StrategyReasons == {"strategy_signal", "strategy_signal: rule"}

\* the entry at 100 and the 101 bar, on which claim and code agree
C15_EntryAndRaise ==
  /\ Entered100 =>
       /\ positions'[SimSymbol].stop_loss = 98 * Scale
       /\ positions'[SimSymbol].take_profit = 104 * Scale
  /\ (Held100(100) /\ last_price' = 101 /\ SimSymbol \in DOMAIN positions') =>
       /\ positions'[SimSymbol].stop_loss > 98 * Scale
       /\ positions'[SimSymbol].stop_type = "trailing"

\* C15 as stated: a position entered at 100 gets stop 98.0 and target 104.0;
\* the 101 bar raises the stop above 98.0, the position is still open after
\* the 99 bar (unless the strategy sold or the holding time ran out), and the
\* 97 bar closes it with a stop-loss reason.
C15_StillOpenAfter99 ==
  [][BarTaken =>
       /\ C15_EntryAndRaise
       /\ (Held100(101) /\ last_price' = 99
             /\ date' - positions[SimSymbol].entry_date < MAX_HOLDING_DAYS) =>
            (SimSymbol \in DOMAIN positions' \/ ClosedBy(StrategyReasons))
       /\ (Held100(101) /\ last_price' = 97) => ClosedBy(StopLossReasons)]_vars

\* C15 as the code has it: stop 98.0 and target 104.0 at the entry; the 101
\* bar raises the stop to 99.485; the 99 bar is at or below that stop and
\* closes the position at 99 with reason 'stop_loss (trailing)', so a 97 bar
\* never meets a position that has seen 101 and 99.
C15_ClosedOn99 ==
  [][BarTaken =>
       /\ C15_EntryAndRaise
       /\ (Held100(100) /\ last_price' = 101 /\ SimSymbol \in DOMAIN positions') =>
            positions'[SimSymbol].stop_loss = 99485
       /\ (Held100(101) /\ last_price' \in {99, 97}) =>
            /\ ClosedBy({"stop_loss (trailing)"})
            /\ trades'[Len(trades')].pos.stop_loss = 99485]_vars

C15_Witness ==
  \E k \in Sells :
    /\ trades[k].entry_price = 100
    /\ trades[k].pos.max_price = 101
    /\ trades[k].exit_price = 99
    /\ trades[k].reason = "stop_loss (trailing)"
    /\ trades[k].bar = 3

CannotAffordOneLot(cap, price) == cap < price * (Scale + COMMISSION_RATE)

\* C17: a buy signal on a bar whose price the capital cannot afford for one
\* lot with commission is not acted on: capital, the open positions and the
\* trades are as they were, no exception is caught, and the loop goes on
\* with the next bar.
C17_UnaffordableSignalIgnored ==
  [][(/\ BarTaken
      /\ SimSymbol \notin DOMAIN positions
      /\ last_signal'
      /\ CannotAffordOneLot(capital, last_price')) =>
        /\ UNCHANGED <<capital, max_capital, positions, trades>>
        /\ exc' = "none"
        /\ pc' = "loop"
        /\ i' = i + 1]_vars

C17_Witness ==
  /\ pc = "loop"
  /\ last_signal
  /\ exc = "none"
  /\ i = 2
  /\ CannotAffordOneLot(capital, last_price)
  /\ DOMAIN positions = {}
  /\ trades = <<>>

\* what the search had to find: the first combination, in product order,
\* whose metric is the largest of all combinations that have one
WithMetric(runs) == {k \in 1..Len(runs) : HasMetric(runs[k])}

IsFirstMax(runs, k) ==
  /\ k \in WithMetric(runs)
  /\ \A j \in WithMetric(runs) :
       /\ runs[j].value <= runs[k].value
       /\ j < k => runs[j].value < runs[k].value

\* C19: a search that returns gives as best_params the combination with the
\* largest metric of the whole product, the first of them in product order.
C19_BestIsFirstMax ==
  (opt.method # "none" /\ opt.pc = "done" /\ WithMetric(opt.runs) # {}) =>
    IsFirstMax(opt.runs, opt.best_params)

\* the results as a set: (combination, outcome) pairs
ResultSet(all_results) == {all_results[j] : j \in 1..Len(all_results)}

\* C20: for the same combinations and outcomes the parallel search returns
\* the best_params and the set of results the sequential search returns.
C20_ParallelSameAsSequential ==
  (opt.method = "parallel" /\ opt.pc = "done") =>
    LET seq == _grid_search(SearchStart("sequential", opt.runs), 1)
    IN seq.pc = "done" =>
         /\ opt.best_params = seq.best_params
         /\ ResultSet(opt.all_results) = ResultSet(seq.all_results)

\* C21: the simulation of a combination is given the combination's values
\* for the strategy and for the risk rules (an entry at 100 gets the stop of
\* the combination's STOP_LOSS_PERCENT), starts from the initial capital with
\* no position and no trade, and the base configuration stays as it was.
C21_RunUsesCombination ==
  opt.sim.ran =>
    /\ opt.sim.strategy = config_copy(BaseConfig, opt.k)
    /\ opt.sim.risk = config_copy(BaseConfig, opt.k)
    /\ opt.sim.stop_loss = 100 * (Scale - StopLossRange[opt.k])
    /\ opt.sim.capital = INITIAL_CAPITAL
    /\ opt.sim.positions = 0
    /\ opt.sim.trades = 0
    /\ opt.config = BaseConfig

C25_OneSamplePerBar ==
  (mode = "backtest" /\ pc \in {"loop", "done"}) =>
    /\ Len(equity_curve) = i
    /\ \A k \in 1..Len(equity_curve) :
         /\ equity_curve[k].equity = equity_curve[k].cash + equity_curve[k].position_value
         /\ equity_curve[k].position_active = 1 <=> equity_curve[k].position_value > 0
         /\ k > 1 => equity_curve[k - 1].date <= equity_curve[k].date

\* a profit factor that is not below 0
NotNegative(pf) == pf.inf \/ (pf.num >= 0 /\ pf.den > 0)

\* the engine's metrics after a run that visited a bar
C23_EngineProfitFactor ==
  (mode = "backtest" /\ pc = "done" /\ equity_curve # <<>>) =>
    LET m == _calculate_metrics(trades, equity_curve)
    IN /\ NotNegative(m.profit_factor)
       /\ m.profit_factor.inf <=> (m.total_trades >= 1 /\ m.losing_trades = 0)
       /\ m.total_trades = 0 => m.profit_factor = Zero

\* the ledger's metrics at any time
C23_LedgerProfitFactor ==
  mode \in LiveModes =>
    LET m == calculate_portfolio_metrics(Ledger)
    IN /\ NotNegative(m.profit_factor)
       /\ m.profit_factor.inf <=> (m.closed_positions >= 1 /\ m.loss_count = 0)
       /\ m.closed_positions = 0 => m.profit_factor = Zero

\* C23: the profit factor is never below 0; it is infinite exactly when
\* there is a closed trade and no closed trade counts as losing; with no
\* trade the metrics are zero.
C23_ProfitFactor == C23_EngineProfitFactor /\ C23_LedgerProfitFactor

\* C24: the maximum drawdown of a series of non-negative equity values is a
\* number between 0 and 100 % of the peak, in the engine's metrics and in
\* PerformanceMetrics.calculate_max_drawdown.
C24_DrawdownBounds ==
  dd.path # "none" =>
    /\ ~dd.nan
    /\ 0 <= dd.num
    /\ dd.num <= dd.den

\* C26: of the signals the strategies produced for an instrument in one check,
\* the executed one has the highest strength and is the first produced of
\* those with that strength; CombinedStrategy, when both of its strategies
\* signal, takes the stronger one and the trend one on equal strengths.
C26_StrongestFirst ==
  sel.path # "none" =>
    /\ (sel.signals = <<>>) = (sel.executed = NoSignal)
    /\ sel.signals # <<>> =>
         \E k \in 1..Len(sel.signals) :
           /\ sel.executed = sel.signals[k]
           /\ \A j \in 1..Len(sel.signals) :
                /\ sel.signals[j].strength <= sel.executed.strength
                /\ j < k => sel.signals[j].strength < sel.executed.strength
    /\ \A k \in 1..Len(sel.signals) :
         /\ sel.signals[k].strategy = "CombinedStrategy (trend)" => sel.trend >= sel.reversal
         /\ sel.signals[k].strategy = "CombinedStrategy (reversal)" => sel.reversal > sel.trend

\* three strategies signalled, two of them with the highest strength, and the
\* first of the two was executed although it is not the first of the list
C26_Witness ==
  /\ sel.path # "none"
  /\ Len(sel.signals) = 3
  /\ sel.executed = sel.signals[2]
  /\ sel.signals[3].strength = sel.executed.strength
  /\ sel.signals[1].strength < sel.executed.strength

\* C27: a request is attempted at most max_retries times, the delay before
\* attempt k + 1 is 2^k seconds (plus a part below one second), and a call
\* whose every attempt failed returns None or an empty result, not data.
C27_BoundedRetries ==
  /\ \A k \in 1..net.periods : net.attempts[k] <= max_retries
  /\ \A k \in 1..Len(net.slept) : \E r \in 0..(max_retries - 2) : net.slept[k] = Pow2(r)
  /\ (/\ net.pc = "returned"
      /\ net.routine # "none"
      /\ \A k \in 1..Len(net.outcomes) : net.outcomes[k] # "ok")
     => net.result \in {"None", "empty"}

\* C28: a step of the stop-check pass that gets no price, and a step of the
\* signal-check cycle that gets no bars, leave the ledger as it was and move
\* on to the next instrument; a cycle that ends has skipped or checked every
\* symbol, and a skipped one is not checked.
C28_SkipsOnlyThatInstrument ==
  /\ [][/\ (lastOp'.op = "pass_step" /\ lastOp'.data = "missing") =>
            /\ UNCHANGED <<pm_positions, pm_keys, closed_positions, state_file>>
            /\ pass' = [pass EXCEPT !.idx = @ + 1]
        /\ (lastOp'.op = "cycle_step" /\ lastOp'.data = "missing") =>
            /\ UNCHANGED <<pm_positions, pm_keys, closed_positions, state_file>>
            /\ cycle'.at = "loop"
            /\ cycle'.idx = cycle.idx + 1
            /\ cycle'.skipped = cycle.skipped \cup {lastOp'.symbol}
            /\ cycle'.checked = cycle.checked]_vars
  /\ [](lastOp.op = "cycle_end" =>
          /\ cycle.skipped \cup cycle.checked = {SYMBOLS[k] : k \in 1..Len(SYMBOLS)}
          /\ cycle.skipped \cap cycle.checked = {})

\* a cycle skipped the first symbol and bought the second, and a later pass
\* got no price for that position
C28_Witness ==
  /\ cycle.at = "idle"
  /\ cycle.skipped = {SYMBOLS[1]}
  /\ cycle.checked = {SYMBOLS[2]}
  /\ SYMBOLS[2] \in DOMAIN pm_positions
  /\ lastOp.op = "pass_step"
  /\ lastOp.data = "missing"

\* C29: update_position for a symbol with no open position changes neither
\* the open positions, nor their order, nor the closed list, nor the state
\* file: a position that was closed is not opened again by an update.
C29_UpdateNotOpenIsNoop ==
  [][(lastOp'.op = "update_position" /\ ~lastOp'.found) =>
       /\ UNCHANGED <<pm_positions, pm_keys, closed_positions, state_file>>
       /\ lastOp'.symbol \notin DOMAIN pm_positions']_vars

\* an update for a symbol whose position was closed before
C29_Witness ==
  /\ lastOp.op = "update_position"
  /\ ~lastOp.found
  /\ \E k \in 1..Len(closed_positions) : closed_positions[k].symbol = lastOp.symbol
  /\ lastOp.symbol \notin DOMAIN pm_positions

\* C30: after an order for a symbol the ledger holds what the broker executed:
\* a buy of a symbol not held leaves the executed lots open, a sell of the
\* lots held leaves open what was not executed.
C30_LedgerHoldsExecutedLots ==
  /\ (fill.direction = "buy" /\ fill.before = 0) =>
       open_quantity(pm_positions, fill.symbol) = fill.executed
  /\ (fill.direction = "sell" /\ fill.before > 0) =>
       open_quantity(pm_positions, fill.symbol) = fill.before - fill.executed

\* C31: a step of the stop-check pass places at most one sell order for its
\* position, whichever of the stop, target, trailing and holding-time
\* conditions hold.
C31_OneSellPerPosition ==
  lastOp.op = "pass_step" => lastOp.sent <= 1

\* C32: a stop-check pass never ends in an error: closing a position inside
\* the pass does not keep the pass from going through the positions that
\* were open when it began.
C32_PassCompletes ==
  pass.at # "crashed"

\* C33: every record of the closed list carries the reason its position was
\* closed for (a stop, the target, the trailing stop, the holding time, or the
\* strategy's sell signal with its first reason), and a step appends one
\* record for each position it takes out of the open set.
LiveCloseReasons ==
  {"stop_loss", "take_profit", "trailing_stop", "max_holding_time", "sell_signal", "rule"}

C33_ClosedRecordHasReason ==
  /\ [](\A k \in 1..Len(closed_positions) :
          closed_positions[k].close_reason \in LiveCloseReasons)
  /\ [][lastOp'.op # "restart" =>
          Len(closed_positions') - Len(closed_positions)
            = Cardinality(DOMAIN pm_positions \ DOMAIN pm_positions')]_vars

\* C34: a step of the signal-check cycle changes the ledger at most once for
\* its symbol: a position the step opened is not closed by the same step.
C34_OneMutationPerCycle ==
  [][(lastOp'.op = "cycle_step" /\ ~lastOp'.found) =>
       closed_positions' = closed_positions]_vars

\* C35: the cash of the simulation is never negative, whatever the bars and
\* the signals were.
C35_CashNotNegative ==
  capital >= 0

\* a position was bought and paid for out of the cash
C35_Witness ==
  /\ SimSymbol \in DOMAIN positions
  /\ capital < initial_capital * Scale
  /\ capital + positions[SimSymbol].value
       + positions[SimSymbol].quantity * positions[SimSymbol].entry_price * COMMISSION_RATE
       = initial_capital * Scale

\* C36: whenever the simulation holds no position, and so at the end of a
\* run that closed every position, the cash is the initial capital plus the
\* profits recorded in the sell trades.
RECURSIVE SumProfits(_)
SumProfits(ks) ==
  IF ks = {} THEN 0
  ELSE LET k == CHOOSE x \in ks : TRUE IN trades[k].profit + SumProfits(ks \ {k})

C36_CashIsCapitalPlusProfits ==
  positions = NoPositions => capital = initial_capital * Scale + SumProfits(Sells)

\* a finished run with two closed trades, the last one closed at the end
C36_Witness ==
  /\ pc = "done"
  /\ positions = NoPositions
  /\ Cardinality(Sells) = 2
  /\ trades[Len(trades)].reason = "end_of_backtest"
  /\ capital # initial_capital * Scale

\* C37: the last equity sample of a finished run shows no active position
\* and its equity is the final cash, also when the position was closed at
\* the end of the bars.
C37_LastSampleRealized ==
  (pc = "done" /\ equity_curve # <<>>) =>
    /\ equity_curve[Len(equity_curve)].position_active = 0
    /\ equity_curve[Len(equity_curve)].equity = capital

\* ---------------------------------------------------------------- C38
\* run() has left its loop
LoopLeft == bot.at \in {"returned", "except", "finally", "exited"}
\* positions_state.json holds the ledger as it is in memory
LedgerOnDisk ==
  /\ state_file.state = "ok"
  /\ state_file.positions = pm_positions
  /\ state_file.keys = pm_keys
  /\ state_file.closed = closed_positions

\* C38: after a stop request (stop(), SIGINT or SIGTERM set running to False)
\* the main loop eventually exits; on every exit path of run() after a
\* successful initialization (stop request, KeyboardInterrupt, exception in
\* the loop) _shutdown runs exactly once and persists the position ledger;
\* while the market is closed no stop check and no signal check is executed.
C38_StopShutsDownOnce ==
  /\ bot.stop_requested ~> LoopLeft
  /\ (bot.at \in {"except", "finally"}) ~> (bot.at = "exited")
  /\ [](bot.shutdowns <= 1)
  /\ [](bot.at = "exited" => bot.shutdowns = 1 /\ LedgerOnDisk)
  /\ []((bot.at \in TryStates /\ ~bot.market_open) => bot.ran = {})

\* C39: walk_forward_optimization terminates for every range, window_size
\* and step_size it accepts: the start of the training window strictly
\* advances on each iteration until the window would exceed the period.
C39_WalkForwardTerminates ==
  /\ <>(wf.pc = "done")
  /\ [][wf'.pc = "loop" => wf'.current_start > wf.current_start]_vars

====
